---- MODULE Spec2Model ----
(***************************************************************************)
(* Admission-control core of simple-utcd: RateLimiter (token buckets),     *)
(* DDoSProtection (sliding window, block list) and ACLManager (CIDR        *)
(* rules).  Each component has its own specification; the variables of     *)
(* the other components stay at their initial values.                      *)
(***************************************************************************)
EXTENDS Integers, Sequences, FiniteSets, TLC

VARIABLES
    now,                 \* std::chrono::system_clock::now(), in clock ticks
    \* ---- RateLimiter (rate_limiter.hpp:79-104)
    enabled_,            \* bool enabled_
    default_rate_,       \* uint64_t default_rate_
    default_burst_,      \* uint64_t default_burst_
    window_seconds_,     \* uint64_t window_seconds_
    global_rate_,        \* uint64_t global_rate_
    global_burst_,       \* uint64_t global_burst_
    global_tokens_,      \* std::atomic<uint64_t> global_tokens_
    global_last_refill_, \* time_point global_last_refill_
    clients_,            \* std::map<std::string, ClientState> clients_
    rl_result,           \* the RateLimitResult returned by the most recent check_* call
    connection_result,   \* the last check_connection_limit call and the bool it returned
    burst_run,           \* history: the current run of consecutive equal check_limit calls
    since_reset,         \* history: reset() was the last call made on the limiter
    \* ---- DDoSProtection (ddos_protection.hpp:99-136)
    clock_ms,                   \* DDoSProtection::now(), in milliseconds
    ddos_enabled_,              \* bool enabled_
    threshold_,                 \* uint64_t threshold_
    block_duration_seconds_,    \* uint64_t block_duration_seconds_
    connection_limit_,          \* uint64_t connection_limit_
    connection_window_seconds_, \* uint64_t connection_window_seconds_
    client_stats_,              \* std::map<std::string, ClientStats> client_stats_
    blocked_clients_,           \* std::map<std::string, BlockEntry> blocked_clients_
    total_blocked_,             \* std::atomic<uint64_t> total_blocked_
    ddos_result,                \* the DDoSResult returned by the most recent check_* call
    \* a second guard run through the same calls except cleanup_expired_entries
    \* (kept when nc_kept is set, for the comparison of the two)
    nc_kept, nc_client_stats_, nc_blocked_clients_, nc_total_blocked_, nc_ddos_result,
    \* ---- ACLManager (acl.hpp:89-91) and the build it runs on
    default_action_,     \* ACLAction default_action_
    rules_,              \* std::vector<ACLRule> rules_
    little_endian,       \* the host's byte order: htonl/ntohl swap bytes iff TRUE
    shift32,             \* what the build yields for 0xFFFFFFFF << 32 (undefined behaviour)
    cidr_ip, cidr_net, cidr_out,  \* inputs and outputs of the CIDR utilities
    \* ---- the worker threads calling into the three components
    owner,               \* for each std::mutex, the thread holding it (0: unlocked)
    thr,                 \* for each thread, the call it is in and its position in it
    round,               \* history: the check_limit calls the threads make side by side
    \* ---- DDoSProtection::detect_anomaly called directly
    anomaly_score,       \* ClientStats::anomaly_score of each IP, as detect_anomaly stored it
    detected             \* the last detect_anomaly call and the bool it returned

rlVars == <<enabled_, default_rate_, default_burst_, window_seconds_, global_rate_, global_burst_, global_tokens_,
            global_last_refill_, clients_, rl_result, connection_result, burst_run, since_reset>>

ddosConfig == <<ddos_enabled_, threshold_, block_duration_seconds_, connection_limit_,
                connection_window_seconds_>>

ddosState == <<client_stats_, blocked_clients_, total_blocked_, ddos_result>>

ncState == <<nc_kept, nc_client_stats_, nc_blocked_clients_, nc_total_blocked_, nc_ddos_result>>

ddosVars == <<clock_ms, ddosConfig, ddosState, ncState>>

aclVars == <<default_action_, rules_, little_endian, shift32, cidr_ip, cidr_net, cidr_out>>

threadVars == <<owner, thr, round>>

scoreVars == <<anomaly_score, detected>>

vars == <<now, rlVars, ddosVars, aclVars, threadVars, scoreVars>>

notRL == <<ddosVars, aclVars, threadVars, scoreVars>>
notDDoS == <<now, rlVars, aclVars, threadVars, scoreVars>>
notACL == <<now, rlVars, ddosVars, threadVars, scoreVars>>
notThreads == <<now, rlVars, ddosVars, aclVars, scoreVars>>

-----------------------------------------------------------------------------
(* Bounds of the model.                                                    *)

\* uint64_t arithmetic is modelled at a reduced width: values wrap modulo 2^WordBits.
WordBits == 4
\* The clock has TicksPerSec ticks in a second, so that time can pass without a
\* whole second passing (duration_cast<seconds> truncates).
TicksPerSec == 2
\* The clock stops advancing at MaxTime ticks.
MaxTime == 3
MaxBurst == 2
MaxGlobalBurst == 3
MaxConnections == 1

Mod == 2 ^ WordBits
UMax == Mod - 1                    \* UINT64_MAX at the modelled width
Clients == {"client1"}
Rates == {0, 1, UMax}
\* Whole seconds a caller sleeps between two calls, and the rates of the callers
\* that sleep
MaxWait == 2
RefillRates == {1, Mod \div 2}
Bursts == 0 .. MaxBurst
GlobalBursts == 0 .. MaxGlobalBurst
Windows == {0, 1}

Min(a, b) == IF a <= b THEN a ELSE b
Max(a, b) == IF a >= b THEN a ELSE b

-----------------------------------------------------------------------------
(* RateLimiter                                                             *)

\* RateLimiter::seconds_since: whole seconds from `time` to now, never negative.
seconds_since(time) == Max(0, (now - time) \div TicksPerSec)

\* RateLimitResult (its constructor: allowed(true), remaining(0), reset_after_seconds(0))
RateLimitResult == [allowed |-> TRUE, remaining |-> 0, reset_after_seconds |-> 0, message |-> ""]

\* ClientState(): tokens(0), rate(0), burst(0), last_refill(now), active_connections(0)
ClientState == [tokens |-> 0, rate |-> 0, burst |-> 0, last_refill |-> now,
                active_connections |-> 0]

\* clients_[client_id]: std::map::operator[] default-constructs a missing entry.
ClientEntry(client_id) ==
    IF client_id \in DOMAIN clients_ THEN clients_[client_id] ELSE ClientState

\* operator[] handing every client the same bucket
Put_shared(map, key, value) == [k \in DOMAIN map \cup {key} |-> value]

Put(map, key, value) == [k \in DOMAIN map \cup {key} |-> IF k = key THEN value ELSE map[k]]

\* refill_tokens without the std::min against burst
refill_tokens_uncapped(state, rate, burst) ==
    LET elapsed == seconds_since(state.last_refill) IN
    IF elapsed > 0
    THEN [state EXCEPT !.tokens = (state.tokens + ((rate * elapsed) % Mod)) % Mod,
                       !.last_refill = now]
    ELSE state

\* RateLimiter::refill_tokens
refill_tokens(state, rate, burst) ==
    LET elapsed == seconds_since(state.last_refill) IN
    IF elapsed > 0
    THEN LET tokens_to_add == (rate * elapsed) % Mod IN
         [state EXCEPT !.tokens = Min(burst, (state.tokens + tokens_to_add) % Mod),
                       !.last_refill = now]
    ELSE state

\* consume_token admitting at tokens >= 0 without taking a token
consume_token_free(state) == [ok |-> TRUE, state |-> state]

\* RateLimiter::consume_token
consume_token(state) ==
    IF state.tokens > 0
    THEN [ok |-> TRUE, state |-> [state EXCEPT !.tokens = state.tokens - 1]]
    ELSE [ok |-> FALSE, state |-> state]

\* The refill half of check_global_limit (lines 127-132): tokens and timestamp after it.
GlobalRefill ==
    LET elapsed == seconds_since(global_last_refill_) IN
    IF elapsed > 0
    THEN LET tokens_to_add == (global_rate_ * elapsed) % Mod IN
         [tokens |-> Min(global_burst_, (global_tokens_ + tokens_to_add) % Mod),
          last_refill |-> now]
    ELSE [tokens |-> global_tokens_, last_refill |-> global_last_refill_]

\* check_global_limit admitting without decrementing global_tokens_
GlobalCheck_keep ==
    LET g == GlobalRefill IN
    [tokens |-> g.tokens, last_refill |-> g.last_refill,
     result |-> [RateLimitResult EXCEPT !.allowed = g.tokens > 0, !.remaining = g.tokens,
                                        !.reset_after_seconds = window_seconds_]]

\* RateLimiter::check_global_limit for an enabled limiter: the new global bucket and the result.
GlobalCheck ==
    LET g == GlobalRefill IN
    IF g.tokens > 0
    THEN [tokens |-> g.tokens - 1, last_refill |-> g.last_refill,
          result |-> [RateLimitResult EXCEPT !.allowed = TRUE, !.remaining = g.tokens - 1,
                                             !.reset_after_seconds = window_seconds_]]
    ELSE [tokens |-> g.tokens, last_refill |-> g.last_refill,
          result |-> [RateLimitResult EXCEPT !.allowed = FALSE, !.remaining = 0,
                                             !.message = "Global rate limit exceeded",
                                             !.reset_after_seconds = window_seconds_]]

\* The per-client half of check_limit refilling the bucket to burst on every call
ClientCheck_fresh(client_id, requests_per_second, burst) ==
    LET state0 == ClientEntry(client_id)
        state1 == [state0 EXCEPT !.rate = requests_per_second, !.burst = burst,
                                 !.tokens = burst, !.last_refill = now]
        c == consume_token(state1)
    IN  IF c.ok
        THEN [state |-> c.state,
              result |-> [RateLimitResult EXCEPT !.allowed = TRUE,
                                                 !.remaining = c.state.tokens,
                                                 !.reset_after_seconds = window_seconds_]]
        ELSE [state |-> c.state,
              result |-> [RateLimitResult EXCEPT !.allowed = FALSE,
                                                 !.message = "Rate limit exceeded",
                                                 !.remaining = c.state.tokens,
                                                 !.reset_after_seconds = window_seconds_]]

\* The per-client half of check_limit (lines 84-113): the client's new entry and the result.
ClientCheck(client_id, requests_per_second, burst) ==
    LET state0 == ClientEntry(client_id)
        state1 == IF state0.rate # requests_per_second \/ state0.burst # burst
                  THEN [state0 EXCEPT !.rate = requests_per_second, !.burst = burst,
                                      !.tokens = burst, !.last_refill = now]
                  ELSE state0
        state2 == refill_tokens(state1, requests_per_second, burst)
        c == consume_token(state2)
    IN  IF c.ok
        THEN [state |-> c.state,
              result |-> [RateLimitResult EXCEPT !.allowed = TRUE,
                                                 !.remaining = c.state.tokens,
                                                 !.reset_after_seconds = window_seconds_]]
        ELSE [state |-> c.state,
              result |-> [RateLimitResult EXCEPT !.allowed = FALSE,
                                                 !.message = "Rate limit exceeded",
                                                 !.remaining = c.state.tokens,
                                                 !.reset_after_seconds = window_seconds_]]

NoRun == [active |-> FALSE, client |-> "", rate |-> 0, burst |-> 0, start |-> 0, res |-> <<>>]

\* History of check_limit(client_id, rate, burst) calls made one after the other, the
\* first on a client without a bucket while the global bucket held at least burst tokens.
RunAfterCheck(client_id, rate, burst, allowed) ==
    IF /\ burst_run.active
       /\ burst_run.client = client_id /\ burst_run.rate = rate /\ burst_run.burst = burst
       /\ Len(burst_run.res) <= burst
    THEN [burst_run EXCEPT !.res = Append(burst_run.res, allowed)]
    ELSE IF client_id \notin DOMAIN clients_ /\ burst >= 1 /\ global_tokens_ >= burst
         THEN [active |-> TRUE, client |-> client_id, rate |-> rate, burst |-> burst,
               start |-> now, res |-> <<allowed>>]
         ELSE NoRun

\* RateLimiter::check_limit(client_id, requests_per_second, burst)
CheckLimit(client_id, requests_per_second, burst) ==
    /\ UNCHANGED <<notRL, connection_result, default_rate_, default_burst_>>
    /\ since_reset' = FALSE
    /\ IF ~enabled_
       THEN /\ rl_result' = [RateLimitResult EXCEPT !.allowed = TRUE]
            /\ burst_run' = NoRun
            /\ UNCHANGED <<global_tokens_, global_last_refill_, clients_>>
       ELSE LET g == GlobalCheck IN
            /\ global_tokens_' = g.tokens
            /\ global_last_refill_' = g.last_refill
            /\ IF ~g.result.allowed
               THEN /\ clients_' = clients_
                    /\ rl_result' = g.result
                    /\ burst_run' = RunAfterCheck(client_id, requests_per_second, burst, FALSE)
               ELSE LET c == ClientCheck(client_id, requests_per_second, burst) IN
                    /\ clients_' = Put(clients_, client_id, c.state)
                    /\ rl_result' = c.result
                    /\ burst_run' = RunAfterCheck(client_id, requests_per_second, burst,
                                                  c.result.allowed)
    /\ UNCHANGED <<now, enabled_, window_seconds_, global_rate_, global_burst_>>

\* RateLimiter::check_limit(client_id): the call with the default rate and burst
CheckLimitDefault(client_id) == CheckLimit(client_id, default_rate_, default_burst_)

\* check_global_limit without the test of enabled_
CheckGlobalLimit_always ==
    /\ UNCHANGED <<notRL, connection_result, default_rate_, default_burst_>>
    /\ since_reset' = FALSE
    /\ LET g == GlobalCheck IN
       /\ global_tokens_' = g.tokens
       /\ global_last_refill_' = g.last_refill
       /\ rl_result' = g.result
    /\ burst_run' = NoRun
    /\ UNCHANGED <<now, enabled_, window_seconds_, global_rate_, global_burst_, clients_>>

\* RateLimiter::check_global_limit
CheckGlobalLimit ==
    /\ UNCHANGED <<notRL, connection_result, default_rate_, default_burst_>>
    /\ since_reset' = FALSE
    /\ IF ~enabled_
       THEN /\ rl_result' = [RateLimitResult EXCEPT !.allowed = TRUE]
            /\ UNCHANGED <<global_tokens_, global_last_refill_>>
       ELSE LET g == GlobalCheck IN
            /\ global_tokens_' = g.tokens
            /\ global_last_refill_' = g.last_refill
            /\ rl_result' = g.result
    /\ burst_run' = NoRun
    /\ UNCHANGED <<now, enabled_, window_seconds_, global_rate_, global_burst_, clients_>>

\* RateLimiter::set_global_burst
SetGlobalBurst(burst) ==
    /\ UNCHANGED <<notRL, connection_result, default_rate_, default_burst_>>
    /\ since_reset' = FALSE
    /\ global_burst_' = burst
    /\ global_tokens_' = burst
    /\ rl_result' = RateLimitResult
    /\ burst_run' = NoRun
    /\ UNCHANGED <<now, enabled_, window_seconds_, global_rate_, global_last_refill_, clients_>>

\* RateLimiter::set_enabled
SetEnabled(enabled) ==
    /\ UNCHANGED <<notRL, connection_result, default_rate_, default_burst_>>
    /\ since_reset' = FALSE
    /\ enabled_' = enabled
    /\ rl_result' = RateLimitResult
    /\ burst_run' = NoRun
    /\ UNCHANGED <<now, window_seconds_, global_rate_, global_burst_, global_tokens_,
                   global_last_refill_, clients_>>

\* Before any check_connection_limit call
NoConnectionCheck == [called |-> FALSE, max_connections |-> 0, allowed |-> TRUE]

\* check_connection_limit admitting a client that is at its maximum
check_connection_limit_inclusive(state, max_connections) ==
    state.active_connections <= max_connections

\* The comparison of check_connection_limit (line 156)
check_connection_limit(state, max_connections) ==
    state.active_connections < max_connections

\* RateLimiter::check_connection_limit; clients_[client_id] creates a missing entry
CheckConnectionLimit(client_id, max_connections) ==
    /\ UNCHANGED <<notRL, default_rate_, default_burst_>>
    /\ since_reset' = FALSE
    /\ IF ~enabled_
       THEN /\ connection_result' = [called |-> TRUE, max_connections |-> max_connections,
                                     allowed |-> TRUE]
            /\ clients_' = clients_
       ELSE /\ connection_result' =
                   [called |-> TRUE, max_connections |-> max_connections,
                    allowed |-> check_connection_limit(ClientEntry(client_id), max_connections)]
            /\ clients_' = Put(clients_, client_id, ClientEntry(client_id))
    /\ UNCHANGED <<now, enabled_, window_seconds_, global_rate_, global_burst_, global_tokens_,
                   global_last_refill_, rl_result, burst_run>>

\* RateLimiter::record_connection
RecordConnection(client_id) ==
    /\ UNCHANGED <<notRL, connection_result, default_rate_, default_burst_>>
    /\ since_reset' = FALSE
    /\ ClientEntry(client_id).active_connections < MaxConnections
    /\ clients_' = Put(clients_, client_id,
                       [ClientEntry(client_id) EXCEPT
                            !.active_connections = ClientEntry(client_id).active_connections + 1])
    /\ rl_result' = RateLimitResult
    /\ burst_run' = NoRun
    /\ UNCHANGED <<now, enabled_, window_seconds_, global_rate_, global_burst_, global_tokens_,
                   global_last_refill_>>

\* RateLimiter::release_connection
ReleaseConnection(client_id) ==
    /\ UNCHANGED <<notRL, connection_result, default_rate_, default_burst_>>
    /\ since_reset' = FALSE
    /\ clients_' = IF client_id \in DOMAIN clients_ /\ clients_[client_id].active_connections > 0
                   THEN [clients_ EXCEPT ![client_id].active_connections = @ - 1]
                   ELSE clients_
    /\ rl_result' = RateLimitResult
    /\ burst_run' = NoRun
    /\ UNCHANGED <<now, enabled_, window_seconds_, global_rate_, global_burst_, global_tokens_,
                   global_last_refill_>>

\* RateLimiter::cleanup_expired_entries
RLCleanupExpiredEntries ==
    /\ UNCHANGED <<notRL, connection_result, default_rate_, default_burst_>>
    /\ since_reset' = FALSE
    /\ clients_' = [c \in {k \in DOMAIN clients_ :
                             ~(seconds_since(clients_[k].last_refill) > (window_seconds_ * 2) % Mod)}
                      |-> clients_[c]]
    /\ rl_result' = RateLimitResult
    /\ burst_run' = NoRun
    /\ UNCHANGED <<now, enabled_, window_seconds_, global_rate_, global_burst_, global_tokens_,
                   global_last_refill_>>

\* RateLimiter::reset
RLReset ==
    /\ UNCHANGED <<notRL, connection_result, default_rate_, default_burst_>>
    /\ since_reset' = TRUE
    /\ clients_' = << >>
    /\ global_tokens_' = global_burst_
    /\ global_last_refill_' = now
    /\ rl_result' = RateLimitResult
    /\ burst_run' = NoRun
    /\ UNCHANGED <<now, enabled_, window_seconds_, global_rate_, global_burst_>>

\* The wall clock advances by d ticks between two calls.
RLTick(d) ==
    /\ UNCHANGED <<notRL, connection_result, default_rate_, default_burst_, since_reset>>
    /\ now + d <= MaxTime
    /\ now' = now + d
    /\ burst_run' = IF burst_run.active /\ (now + d - burst_run.start) \div TicksPerSec = 0
                    THEN burst_run ELSE NoRun
    /\ UNCHANGED <<enabled_, window_seconds_, global_rate_, global_burst_, global_tokens_,
                   global_last_refill_, clients_, rl_result>>

\* The system clock after the caller has slept whole seconds
RLSleep(seconds) ==
    /\ UNCHANGED <<notRL, connection_result, default_rate_, default_burst_, since_reset>>
    /\ now + seconds * TicksPerSec <= (MaxWait + 1) * TicksPerSec
    /\ now' = now + seconds * TicksPerSec
    /\ burst_run' = NoRun
    /\ UNCHANGED <<enabled_, window_seconds_, global_rate_, global_burst_, global_tokens_,
                   global_last_refill_, clients_, rl_result>>

\* The limiter after construction (rate_limiter.cpp:25-35) and configuration through
\* set_enabled, set_window_seconds, set_global_rate and set_global_burst, which are
\* plain assignments; set_global_burst also fills the global bucket.
RLConfigured ==
    /\ now = 0
    /\ enabled_ = TRUE
    /\ default_rate_ = UMax /\ default_burst_ = MaxBurst
    /\ window_seconds_ \in Windows
    /\ global_rate_ \in Rates
    /\ global_burst_ = MaxGlobalBurst
    /\ global_tokens_ = global_burst_
    /\ global_last_refill_ = 0
    /\ clients_ = << >>
    /\ rl_result = RateLimitResult
    /\ connection_result = NoConnectionCheck
    /\ burst_run = NoRun
    /\ since_reset = FALSE

-----------------------------------------------------------------------------
(* DDoSProtection                                                          *)
(* Time points are milliseconds.  ClientStats' first_seen, last_seen and   *)
(* anomaly_score and BlockEntry's blocked_at and reason are written but    *)
(* never read by the class, and are left out.                              *)
(* The operations are written over the tables they read and write, so that *)
(* they can be run on the guard and on its copy that is never cleaned up.  *)

\* Bounds of the model.
MaxSeconds == 3          \* the clock stops after this many whole seconds
MaxMillis == 1           \* millisecond steps are taken up to this clock value
MaxRequests == 3         \* requests recorded per IP
MaxRecorded == 3         \* connection times kept per IP while connections are also closed
MaxScore == 4            \* the anomaly score is compared with the bounds 0 .. MaxScore

MsPerSec == 1000
AnomalyThreshold == 3    \* anomaly_threshold_(3.0)
BotMinSamples == 10
BotMaxMeanMs == 100

\* The values the calls are made with.
IPs == {"192.168.1.100"}
Thresholds == {1, 3}
Durations == {0, 1}
ConnWindows == {1, 3}
Limits == {1}

\* DDoSResult(): allowed(true), status(NORMAL), block_duration_seconds(0)
DDoSResult == [allowed |-> TRUE, status |-> "NORMAL", reason |-> "",
               block_duration_seconds |-> 0]

\* ClientStats(): total_requests(0), total_connections(0), empty time vectors
ClientStats == [request_times |-> << >>, connection_times |-> << >>,
                total_requests |-> 0, total_connections |-> 0]

\* No detect_anomaly call has been made
NotDetected == [called |-> FALSE, ip |-> "", result |-> FALSE]

StatsEntry(stats, client_ip) ==
    IF client_ip \in DOMAIN stats THEN stats[client_ip] ELSE ClientStats

\* std::remove_if + erase of the elements satisfying Drop(_), keeping the order
RECURSIVE EraseIf(_, _)
EraseIf(times, cutoff) ==
    IF times = << >> THEN << >>
    ELSE IF Head(times) < cutoff THEN EraseIf(Tail(times), cutoff)
         ELSE <<Head(times)>> \o EraseIf(Tail(times), cutoff)

\* DDoSProtection::is_expired with <= in place of <
is_expired_inclusive(time) == time <= clock_ms

\* DDoSProtection::is_expired
is_expired(time) == time < clock_ms

\* DDoSProtection::is_blocked
is_blocked(blocks, client_ip) ==
    IF client_ip \notin DOMAIN blocks THEN FALSE
    ELSE IF is_expired(blocks[client_ip].expires_at) THEN FALSE
    ELSE TRUE

\* DDoSProtection::block_client
block_client(blocks, client_ip, duration_seconds) ==
    Put(blocks, client_ip, [expires_at |-> clock_ms + duration_seconds * MsPerSec])

\* DDoSProtection::get_blocked_ips
get_blocked_ips(blocks) == {ip \in DOMAIN blocks : ~is_expired(blocks[ip].expires_at)}

\* cleanup_old_entries that leaves the connection time points alone
cleanup_old_entries_requests_only(entry) ==
    LET cutoff == clock_ms - (connection_window_seconds_ * 2) * MsPerSec IN
    [entry EXCEPT !.request_times = EraseIf(entry.request_times, cutoff)]

\* DDoSProtection::cleanup_old_entries
cleanup_old_entries(entry) ==
    LET cutoff == clock_ms - (connection_window_seconds_ * 2) * MsPerSec IN
    [entry EXCEPT !.request_times = EraseIf(entry.request_times, cutoff),
                  !.connection_times = EraseIf(entry.connection_times, cutoff)]

\* DDoSProtection::record_request
record_request(stats, client_ip) ==
    LET e == StatsEntry(stats, client_ip) IN
    Put(stats, client_ip,
        cleanup_old_entries([e EXCEPT !.request_times = Append(e.request_times, clock_ms),
                                      !.total_requests = e.total_requests + 1]))

\* DDoSProtection::record_connection
record_connection(stats, client_ip) ==
    LET e == StatsEntry(stats, client_ip) IN
    Put(stats, client_ip,
        cleanup_old_entries([e EXCEPT !.connection_times = Append(e.connection_times, clock_ms),
                                      !.total_connections = e.total_connections + 1]))

\* record_disconnection without the test for a positive count
record_disconnection_unguarded(stats, client_ip) ==
    IF client_ip \in DOMAIN stats
    THEN [stats EXCEPT ![client_ip].total_connections = @ - 1]
    ELSE stats

\* DDoSProtection::record_disconnection
record_disconnection(stats, client_ip) ==
    IF client_ip \in DOMAIN stats /\ stats[client_ip].total_connections > 0
    THEN [stats EXCEPT ![client_ip].total_connections = @ - 1]
    ELSE stats

\* DDoSProtection::get_connection_count
get_connection_count(stats, client_ip) ==
    IF client_ip \in DOMAIN stats THEN stats[client_ip].total_connections ELSE 0

\* DDoSProtection::calculate_request_rate
calculate_request_rate(entry) ==
    IF entry.request_times = << >> THEN 0
    ELSE LET window_start == clock_ms - connection_window_seconds_ * MsPerSec IN
         Cardinality({i \in 1 .. Len(entry.request_times) : entry.request_times[i] >= window_start})

\* DDoSProtection::get_request_rate_for_ip
get_request_rate_for_ip(stats, client_ip) ==
    IF client_ip \notin DOMAIN stats THEN 0 ELSE calculate_request_rate(stats[client_ip])

\* The inter-arrival intervals of the retained requests, in milliseconds
Intervals(entry) ==
    [i \in 1 .. (Len(entry.request_times) - 1) |->
        entry.request_times[i + 1] - entry.request_times[i]]

RECURSIVE SumSeq(_)
SumSeq(q) == IF q = << >> THEN 0 ELSE Head(q) + SumSeq(Tail(q))

RECURSIVE SumSquares(_)
SumSquares(q) == IF q = << >> THEN 0 ELSE Head(q) * Head(q) + SumSquares(Tail(q))

\* calculate_anomaly_score(stats) > bound, in exact arithmetic.  With n intervals of
\* sum S and sum of squares Q: mean = S/n, stddev = sqrt(n*Q - S*S)/n and, for
\* mean > 0, score = (rate/mean) * (1/(1 + stddev)); so score > bound iff
\* rate*n*n - bound*S*n > bound*S*sqrt(n*Q - S*S).
anomaly_score_exceeds(entry, bound) ==
    IF entry.total_requests = 0 THEN FALSE
    ELSE IF Len(entry.request_times) < 2 THEN FALSE
    ELSE LET rate == calculate_request_rate(entry)
             n == Len(entry.request_times) - 1
             S == SumSeq(Intervals(entry))
             Q == SumSquares(Intervals(entry))
             L == rate * n * n - bound * S * n
         IN  IF S > 0
             THEN L > 0 /\ L * L > bound * bound * S * S * (n * Q - S * S)
             ELSE 0 > bound

\* calculate_anomaly_score taking every retained request for the rate
calculate_anomaly_score_retained(entry) ==
    {b \in 0 .. MaxScore :
        /\ Len(entry.request_times) >= 2
        /\ LET rate == Len(entry.request_times)
               n == Len(entry.request_times) - 1
               S == SumSeq(Intervals(entry))
               Q == SumSquares(Intervals(entry))
               L == rate * n * n - b * S * n
           IN  S > 0 /\ L > 0 /\ L * L > b * b * S * S * (n * Q - S * S)}

\* DDoSProtection::calculate_anomaly_score.  The double it returns is known by the
\* integer bounds it exceeds.
calculate_anomaly_score(entry) == {b \in 0 .. MaxScore : anomaly_score_exceeds(entry, b)}

\* is_anomalous_pattern with stddev <= mean * 0.1 in place of <
is_anomalous_pattern_inclusive(entry) ==
    IF Len(entry.request_times) < BotMinSamples THEN FALSE
    ELSE LET n == Len(entry.request_times) - 1
             S == SumSeq(Intervals(entry))
             Q == SumSquares(Intervals(entry))
         IN  S < BotMaxMeanMs * n /\ 100 * (n * Q - S * S) <= S * S

\* DDoSProtection::is_anomalous_pattern: stddev < mean * 0.1 && mean < 100 over
\* at least 10 samples; with the names above, 100*(n*Q - S*S) < S*S and S < 100*n.
is_anomalous_pattern(entry) ==
    IF Len(entry.request_times) < BotMinSamples THEN FALSE
    ELSE LET n == Len(entry.request_times) - 1
             S == SumSeq(Intervals(entry))
             Q == SumSquares(Intervals(entry))
         IN  S < BotMaxMeanMs * n /\ 100 * (n * Q - S * S) < S * S

\* DDoSProtection::detect_anomaly (its result; the stored score is not read again)
detect_anomaly(stats, client_ip) ==
    IF client_ip \notin DOMAIN stats THEN FALSE
    ELSE \/ anomaly_score_exceeds(stats[client_ip], AnomalyThreshold)
         \/ is_anomalous_pattern(stats[client_ip])

Attack(stats, blocks, total, client_ip, reason) ==
    [stats |-> stats,
     blocks |-> block_client(blocks, client_ip, block_duration_seconds_),
     total |-> total + 1,
     result |-> [allowed |-> FALSE, status |-> "ATTACK_DETECTED", reason |-> reason,
                 block_duration_seconds |-> block_duration_seconds_]]

Blocked(stats, blocks, total) ==
    [stats |-> stats, blocks |-> blocks, total |-> total,
     result |-> [DDoSResult EXCEPT !.allowed = FALSE, !.status = "BLOCKED",
                                   !.reason = "IP address is blocked"]]

\* check_request without the is_blocked short cut
check_request_no_shortcut(stats, blocks, total, client_ip) ==
    IF ~ddos_enabled_
    THEN [stats |-> stats, blocks |-> blocks, total |-> total, result |-> DDoSResult]
    ELSE LET recorded == record_request(stats, client_ip)
             rate == get_request_rate_for_ip(recorded, client_ip)
         IN  IF rate > threshold_
             THEN Attack(recorded, blocks, total, client_ip, "Request rate exceeded threshold")
             ELSE [stats |-> recorded, blocks |-> blocks, total |-> total, result |-> DDoSResult]

\* check_request blocking at rate >= threshold_
check_request_at_threshold(stats, blocks, total, client_ip) ==
    IF ~ddos_enabled_
    THEN [stats |-> stats, blocks |-> blocks, total |-> total, result |-> DDoSResult]
    ELSE IF is_blocked(blocks, client_ip) THEN Blocked(stats, blocks, total)
    ELSE LET recorded == record_request(stats, client_ip)
             rate == get_request_rate_for_ip(recorded, client_ip)
         IN  IF rate >= threshold_
             THEN Attack(recorded, blocks, total, client_ip, "Request rate exceeded threshold")
             ELSE [stats |-> recorded, blocks |-> blocks, total |-> total, result |-> DDoSResult]

\* check_request warning from exactly 80% of the threshold (>= in place of >)
check_request_warn_inclusive(stats, blocks, total, client_ip) ==
    IF ~ddos_enabled_
    THEN [stats |-> stats, blocks |-> blocks, total |-> total, result |-> DDoSResult]
    ELSE IF is_blocked(blocks, client_ip) THEN Blocked(stats, blocks, total)
    ELSE LET recorded == record_request(stats, client_ip)
             rate == get_request_rate_for_ip(recorded, client_ip)
         IN  IF rate > threshold_
             THEN Attack(recorded, blocks, total, client_ip, "Request rate exceeded threshold")
             ELSE IF detect_anomaly(recorded, client_ip)
             THEN Attack(recorded, blocks, total, client_ip,
                         "Anomalous traffic pattern detected")
             ELSE [stats |-> recorded, blocks |-> blocks, total |-> total,
                   result |-> IF 5 * rate >= 4 * threshold_
                              THEN [DDoSResult EXCEPT !.status = "WARNING",
                                        !.reason = "Request rate approaching threshold"]
                              ELSE DDoSResult]

\* check_request without the test of enabled_
check_request_always(stats, blocks, total, client_ip) ==
    IF is_blocked(blocks, client_ip) THEN Blocked(stats, blocks, total)
    ELSE LET recorded == record_request(stats, client_ip)
             rate == get_request_rate_for_ip(recorded, client_ip)
         IN  IF rate > threshold_
             THEN Attack(recorded, blocks, total, client_ip, "Request rate exceeded threshold")
             ELSE IF detect_anomaly(recorded, client_ip)
             THEN Attack(recorded, blocks, total, client_ip,
                         "Anomalous traffic pattern detected")
             ELSE [stats |-> recorded, blocks |-> blocks, total |-> total,
                   result |-> IF 5 * rate > 4 * threshold_
                              THEN [DDoSResult EXCEPT !.status = "WARNING",
                                        !.reason = "Request rate approaching threshold"]
                              ELSE DDoSResult]

\* DDoSProtection::check_request: the tables and the result after the call
check_request(stats, blocks, total, client_ip) ==
    IF ~ddos_enabled_
    THEN [stats |-> stats, blocks |-> blocks, total |-> total, result |-> DDoSResult]
    ELSE IF is_blocked(blocks, client_ip) THEN Blocked(stats, blocks, total)
    ELSE LET recorded == record_request(stats, client_ip)
             rate == get_request_rate_for_ip(recorded, client_ip)
         IN  IF rate > threshold_
             THEN Attack(recorded, blocks, total, client_ip, "Request rate exceeded threshold")
             ELSE IF detect_anomaly(recorded, client_ip)
             THEN Attack(recorded, blocks, total, client_ip,
                         "Anomalous traffic pattern detected")
             ELSE [stats |-> recorded, blocks |-> blocks, total |-> total,
                   result |-> IF 5 * rate > 4 * threshold_     \* rate > threshold_ * 0.8
                              THEN [DDoSResult EXCEPT !.status = "WARNING",
                                        !.reason = "Request rate approaching threshold"]
                              ELSE DDoSResult]

\* check_connection that blocks at the limit without counting the block
check_connection_uncounted(stats, blocks, total, client_ip) ==
    IF ~ddos_enabled_
    THEN [stats |-> stats, blocks |-> blocks, total |-> total, result |-> DDoSResult]
    ELSE IF is_blocked(blocks, client_ip) THEN Blocked(stats, blocks, total)
    ELSE IF get_connection_count(stats, client_ip) >= connection_limit_
    THEN [Attack(stats, blocks, total, client_ip, "Connection limit exceeded")
             EXCEPT !.total = total]
    ELSE [stats |-> record_connection(stats, client_ip), blocks |-> blocks, total |-> total,
          result |-> DDoSResult]

\* check_connection refusing only above the limit (> in place of >=)
check_connection_above(stats, blocks, total, client_ip) ==
    IF ~ddos_enabled_
    THEN [stats |-> stats, blocks |-> blocks, total |-> total, result |-> DDoSResult]
    ELSE IF is_blocked(blocks, client_ip) THEN Blocked(stats, blocks, total)
    ELSE IF get_connection_count(stats, client_ip) > connection_limit_
    THEN Attack(stats, blocks, total, client_ip, "Connection limit exceeded")
    ELSE [stats |-> record_connection(stats, client_ip), blocks |-> blocks, total |-> total,
          result |-> DDoSResult]

\* DDoSProtection::check_connection: the tables and the result after the call
check_connection(stats, blocks, total, client_ip) ==
    IF ~ddos_enabled_
    THEN [stats |-> stats, blocks |-> blocks, total |-> total, result |-> DDoSResult]
    ELSE IF is_blocked(blocks, client_ip) THEN Blocked(stats, blocks, total)
    ELSE IF get_connection_count(stats, client_ip) >= connection_limit_
    THEN Attack(stats, blocks, total, client_ip, "Connection limit exceeded")
    ELSE [stats |-> record_connection(stats, client_ip), blocks |-> blocks, total |-> total,
          result |-> DDoSResult]

\* DDoSProtection::cleanup_expired_entries: the block table after it
cleanup_blocks(blocks) ==
    [ip \in {k \in DOMAIN blocks : ~is_expired(blocks[k].expires_at)} |-> blocks[ip]]

\* DDoSProtection::cleanup_expired_entries: the statistics after it
cleanup_stats(stats) == [ip \in DOMAIN stats |-> cleanup_old_entries(stats[ip])]

\* The requests recorded for the IP so far (by either guard)
Requests(client_ip) ==
    Max(StatsEntry(client_stats_, client_ip).total_requests,
        StatsEntry(nc_client_stats_, client_ip).total_requests)

\* The second guard takes its new value when it is kept
Kept(new, old) == IF nc_kept THEN new ELSE old

CheckRequest(client_ip) ==
    /\ UNCHANGED notDDoS
    /\ Requests(client_ip) < MaxRequests
    /\ LET r == check_request(client_stats_, blocked_clients_, total_blocked_, client_ip)
           n == check_request(nc_client_stats_, nc_blocked_clients_, nc_total_blocked_, client_ip)
       IN  /\ client_stats_' = r.stats /\ blocked_clients_' = r.blocks
           /\ total_blocked_' = r.total /\ ddos_result' = r.result
           /\ nc_client_stats_' = Kept(n.stats, nc_client_stats_)
           /\ nc_blocked_clients_' = Kept(n.blocks, nc_blocked_clients_)
           /\ nc_total_blocked_' = Kept(n.total, nc_total_blocked_)
           /\ nc_ddos_result' = Kept(n.result, nc_ddos_result)
    /\ UNCHANGED <<clock_ms, ddosConfig, nc_kept>>

CheckConnection(client_ip) ==
    /\ UNCHANGED notDDoS
    /\ LET r == check_connection(client_stats_, blocked_clients_, total_blocked_, client_ip)
           n == check_connection(nc_client_stats_, nc_blocked_clients_, nc_total_blocked_,
                                 client_ip)
       IN  /\ client_stats_' = r.stats /\ blocked_clients_' = r.blocks
           /\ total_blocked_' = r.total /\ ddos_result' = r.result
           /\ nc_client_stats_' = Kept(n.stats, nc_client_stats_)
           /\ nc_blocked_clients_' = Kept(n.blocks, nc_blocked_clients_)
           /\ nc_total_blocked_' = Kept(n.total, nc_total_blocked_)
           /\ nc_ddos_result' = Kept(n.result, nc_ddos_result)
    /\ UNCHANGED <<clock_ms, ddosConfig, nc_kept>>

\* DDoSProtection::record_request called directly
RecordRequest(client_ip) ==
    /\ UNCHANGED notDDoS
    /\ Requests(client_ip) < MaxRequests
    /\ client_stats_' = record_request(client_stats_, client_ip)
    /\ nc_client_stats_' = Kept(record_request(nc_client_stats_, client_ip), nc_client_stats_)
    /\ ddos_result' = DDoSResult /\ nc_ddos_result' = Kept(DDoSResult, nc_ddos_result)
    /\ UNCHANGED <<clock_ms, ddosConfig, blocked_clients_, total_blocked_,
                   nc_blocked_clients_, nc_total_blocked_, nc_kept>>

\* DDoSProtection::record_connection called directly
DDoSRecordConnection(client_ip) ==
    /\ UNCHANGED notDDoS
    /\ Len(StatsEntry(client_stats_, client_ip).connection_times) < MaxRecorded
    /\ client_stats_' = record_connection(client_stats_, client_ip)
    /\ nc_client_stats_' = Kept(record_connection(nc_client_stats_, client_ip), nc_client_stats_)
    /\ ddos_result' = DDoSResult /\ nc_ddos_result' = Kept(DDoSResult, nc_ddos_result)
    /\ UNCHANGED <<clock_ms, ddosConfig, blocked_clients_, total_blocked_,
                   nc_blocked_clients_, nc_total_blocked_, nc_kept>>

\* DDoSProtection::record_disconnection called directly
RecordDisconnection(client_ip) ==
    /\ UNCHANGED notDDoS
    /\ client_stats_' = record_disconnection(client_stats_, client_ip)
    /\ nc_client_stats_' =
           Kept(record_disconnection(nc_client_stats_, client_ip), nc_client_stats_)
    /\ ddos_result' = DDoSResult /\ nc_ddos_result' = Kept(DDoSResult, nc_ddos_result)
    /\ UNCHANGED <<clock_ms, ddosConfig, blocked_clients_, total_blocked_,
                   nc_blocked_clients_, nc_total_blocked_, nc_kept>>

BlockClient(client_ip, duration_seconds) ==
    /\ UNCHANGED notDDoS
    /\ blocked_clients_' = block_client(blocked_clients_, client_ip, duration_seconds)
    /\ nc_blocked_clients_' =
           Kept(block_client(nc_blocked_clients_, client_ip, duration_seconds),
                nc_blocked_clients_)
    /\ ddos_result' = DDoSResult /\ nc_ddos_result' = Kept(DDoSResult, nc_ddos_result)
    /\ UNCHANGED <<clock_ms, ddosConfig, client_stats_, total_blocked_,
                   nc_client_stats_, nc_total_blocked_, nc_kept>>

\* DDoSProtection::set_enabled
DDoSSetEnabled(enabled) ==
    /\ UNCHANGED notDDoS
    /\ ddos_enabled_' = enabled
    /\ ddos_result' = DDoSResult /\ nc_ddos_result' = Kept(DDoSResult, nc_ddos_result)
    /\ UNCHANGED <<clock_ms, threshold_, block_duration_seconds_, connection_limit_,
                   connection_window_seconds_, client_stats_, blocked_clients_, total_blocked_,
                   nc_kept, nc_client_stats_, nc_blocked_clients_, nc_total_blocked_>>

\* DDoSProtection::unblock_client
UnblockClient(client_ip) ==
    /\ UNCHANGED notDDoS
    /\ blocked_clients_' = [ip \in DOMAIN blocked_clients_ \ {client_ip} |-> blocked_clients_[ip]]
    /\ nc_blocked_clients_' =
           Kept([ip \in DOMAIN nc_blocked_clients_ \ {client_ip} |-> nc_blocked_clients_[ip]],
                nc_blocked_clients_)
    /\ ddos_result' = DDoSResult /\ nc_ddos_result' = Kept(DDoSResult, nc_ddos_result)
    /\ UNCHANGED <<clock_ms, ddosConfig, client_stats_, total_blocked_,
                   nc_client_stats_, nc_total_blocked_, nc_kept>>

\* DDoSProtection::cleanup_expired_entries (the copy does not run it)
DDoSCleanupExpiredEntries ==
    /\ UNCHANGED notDDoS
    /\ blocked_clients_' = cleanup_blocks(blocked_clients_)
    /\ client_stats_' = cleanup_stats(client_stats_)
    /\ ddos_result' = DDoSResult /\ nc_ddos_result' = Kept(DDoSResult, nc_ddos_result)
    /\ UNCHANGED <<clock_ms, ddosConfig, total_blocked_, nc_client_stats_,
                   nc_blocked_clients_, nc_total_blocked_, nc_kept>>

\* DDoSProtection::set_connection_window
SetConnectionWindow(window_seconds) ==
    /\ UNCHANGED notDDoS
    /\ connection_window_seconds_' = window_seconds
    /\ ddos_result' = DDoSResult /\ nc_ddos_result' = Kept(DDoSResult, nc_ddos_result)
    /\ UNCHANGED <<clock_ms, ddos_enabled_, threshold_, block_duration_seconds_,
                   connection_limit_, client_stats_, blocked_clients_, total_blocked_,
                   nc_kept, nc_client_stats_, nc_blocked_clients_, nc_total_blocked_>>

\* The system clock advances between two calls: by a millisecond, or to the next
\* whole second.
DDoSTick(d) ==
    /\ UNCHANGED notDDoS
    /\ \/ d = 1 /\ clock_ms < MaxMillis
       \/ (clock_ms + d) % MsPerSec = 0 /\ clock_ms + d <= MaxSeconds * MsPerSec
    /\ clock_ms' = clock_ms + d
    /\ UNCHANGED <<ddosConfig, ddosState, ncState>>

\* The guard after construction (ddos_protection.cpp:25-34) and configuration through
\* its setters, which are plain assignments.
DDoSConfigured ==
    /\ clock_ms = 0
    /\ ddos_enabled_ = TRUE
    /\ threshold_ \in Thresholds
    /\ block_duration_seconds_ \in Durations \ {0}
    /\ connection_limit_ \in Limits
    /\ connection_window_seconds_ \in ConnWindows
    /\ client_stats_ = << >> /\ blocked_clients_ = << >> /\ total_blocked_ = 0
    /\ ddos_result = DDoSResult
    /\ nc_kept \in BOOLEAN
    /\ nc_client_stats_ = << >> /\ nc_blocked_clients_ = << >> /\ nc_total_blocked_ = 0
    /\ nc_ddos_result = DDoSResult
    /\ anomaly_score = << >> /\ detected = NotDetected

-----------------------------------------------------------------------------
(* ACLManager                                                              *)
(* A 32-bit word is the tuple of its four octets, most significant first.  *)
(* A dotted quad a.b.c.d is the tuple <<a, b, c, d>>, and a network string *)
(* is the record of its address, of whether it has a '/', and of the       *)
(* text after the '/': whether it starts with a decimal number, that       *)
(* number, and the characters after it.  Two network strings are equal iff *)
(* their records are: "a.b.c.d" and "a.b.c.d/32" are different strings.     *)

\* Bound of the model.
MaxRules == 2            \* rules in the table

MaxPrefix == 32

\* The values the calls are made with.
Addresses == {<<192, 168, 1, 0>>, <<192, 168, 1, 100>>, <<10, 168, 1, 0>>}
Prefixes == {0, 24, MaxPrefix, MaxPrefix + 1}
Actions == {"ALLOW", "DENY"}

Host(addr) == [addr |-> addr, slash |-> FALSE, digits |-> FALSE, prefix |-> 0, rest |-> ""]
Cidr(addr, prefix) ==
    [addr |-> addr, slash |-> TRUE, digits |-> TRUE, prefix |-> prefix, rest |-> ""]

\* Strings that are not network strings: "256.168.1.0", "192.168.1.0/",
\* "192.168.1.0/x" and "192.168.1.0/24x"
Malformed ==
    {Host(<<256, 168, 1, 0>>),
     [Cidr(<<192, 168, 1, 0>>, 0) EXCEPT !.digits = FALSE],
     [Cidr(<<192, 168, 1, 0>>, 0) EXCEPT !.digits = FALSE, !.rest = "x"],
     [Cidr(<<192, 168, 1, 0>>, 24) EXCEPT !.rest = "x"]}

Networks == {Host(a) : a \in Addresses} \cup {Cidr(a, p) : a \in Addresses, p \in Prefixes}
CidrStrings ==
    {Host(a) : a \in Addresses} \cup {Cidr(a, p) : a \in Addresses, p \in 0 .. (MaxPrefix + 1)}
\* The strings and descriptions given to the calls that edit the table, and the
\* lists given to load_rules
TableStrings == {Cidr(<<192, 168, 1, 0>>, 24), Host(<<192, 168, 1, 100>>)} \cup Malformed
Descriptions == {"", "office"}
TableLists ==
    {<< >>} \cup {<<n>> : n \in TableStrings}
        \cup {<<n, Host(<<192, 168, 1, 100>>)>> : n \in TableStrings}
ConfigLists ==
    {<< >>, <<Cidr(<<192, 168, 1, 0>>, 24)>>, <<Host(<<192, 168, 1, 100>>)>>,
     <<Host(<<192, 168, 1, 0>>)>>}

\* What `0xFFFFFFFF << 32` evaluates to: the shift count equals the width of the
\* operand, which is undefined; the count is taken modulo 32 or the bits are
\* shifted out.
Shift32Outcomes == {<<255, 255, 255, 255>>, <<0, 0, 0, 0>>}

\* The bytes of a word in the opposite order
Reverse(word) == <<word[4], word[3], word[2], word[1]>>

htonl(word) == IF little_endian THEN Reverse(word) ELSE word

ntohl(word) == IF little_endian THEN Reverse(word) ELSE word

\* inet_pton(AF_INET, ., &sa.sin_addr): 1 iff the string is a dotted quad; s_addr
\* holds a, b, c, d in this order in memory, read as a word of the host
inet_pton(addr) ==
    [ok |-> \A i \in 1 .. 4 : addr[i] \in 0 .. 255,
     s_addr |-> IF little_endian THEN Reverse(addr) ELSE addr]

\* ACLManager::ip_to_uint32
ip_to_uint32(addr) == ntohl(inet_pton(addr).s_addr)

\* The word whose top p bits are set, 0 <= p <= 32
TopBits(p) == [i \in 1 .. 4 |-> 256 - 2 ^ (8 - Min(8, Max(0, p - 8 * (i - 1))))]

\* (0xFFFFFFFF << count) & 0xFFFFFFFF, 0 <= count <= 32
ShiftLeft(count) == IF count = 32 THEN shift32 ELSE TopBits(32 - count)

RECURSIVE BitAnd(_, _, _)
BitAnd(x, y, bits) ==
    IF bits = 0 THEN 0
    ELSE (x % 2) * (y % 2) + 2 * BitAnd(x \div 2, y \div 2, bits - 1)

\* a & b on words
WordAnd(a, b) == [i \in 1 .. 4 |-> BitAnd(a[i], b[i], 8)]

RECURSIVE BitCount(_)
BitCount(x) == IF x = 0 THEN 0 ELSE (x % 2) + BitCount(x \div 2)

\* __builtin_popcount
popcount(word) == BitCount(word[1]) + BitCount(word[2]) + BitCount(word[3]) + BitCount(word[4])

\* std::stoi of the text after the '/': the decimal number the text starts with,
\* whatever follows it; std::invalid_argument when it starts with none
stoi(cidr) == [thrown |-> ~cidr.digits, value |-> cidr.prefix]

\* ACLManager::is_valid_cidr leaves by the exception of its std::stoi call
is_valid_cidr_throws(cidr) ==
    cidr.slash /\ inet_pton(cidr.addr).ok /\ stoi(cidr).thrown

\* ACLManager::is_valid_cidr (when it returns)
is_valid_cidr(cidr) ==
    IF ~cidr.slash THEN inet_pton(cidr.addr).ok
    ELSE IF ~inet_pton(cidr.addr).ok THEN FALSE
    ELSE LET mask == stoi(cidr).value IN mask >= 0 /\ mask <= 32

\* ACLManager::parse_cidr taking a string without '/' as a /24 network
parse_cidr_slash24(cidr) ==
    LET prefix_len == IF cidr.slash THEN stoi(cidr).value ELSE 24 IN
    IF cidr.slash /\ (prefix_len < 0 \/ prefix_len > 32)
    THEN [ok |-> FALSE, network |-> <<0, 0, 0, 0>>, mask |-> <<0, 0, 0, 0>>]
    ELSE [ok |-> TRUE, network |-> ip_to_uint32(cidr.addr),
          mask |-> htonl(ShiftLeft(32 - prefix_len))]

\* ACLManager::parse_cidr: its return value and the two words it writes
parse_cidr(cidr) ==
    LET prefix_len == IF cidr.slash THEN stoi(cidr).value ELSE 32 IN
    IF cidr.slash /\ (prefix_len < 0 \/ prefix_len > 32)
    THEN [ok |-> FALSE, network |-> <<0, 0, 0, 0>>, mask |-> <<0, 0, 0, 0>>]
    ELSE [ok |-> TRUE, network |-> ip_to_uint32(cidr.addr),
          mask |-> htonl(ShiftLeft(32 - prefix_len))]

\* ACLManager::is_ip_in_network
is_ip_in_network(ip, cidr) ==
    LET c == parse_cidr(cidr) IN
    IF ~c.ok THEN FALSE
    ELSE WordAnd(ip_to_uint32(ip), c.mask) = WordAnd(c.network, c.mask)

\* struct ACLRule
ACLRule(action, network, description) ==
    [action |-> action, network |-> network, description |-> description]

\* ACLManager::matches_rule
matches_rule(ip, rule) == is_ip_in_network(ip, rule.network)

\* ACLManager::compare_rules
compare_rules(a, b) ==
    LET a_prefix == popcount(ntohl(parse_cidr(a.network).mask))
        b_prefix == popcount(ntohl(parse_cidr(b.network).mask))
    IN  IF a_prefix # b_prefix THEN a_prefix - b_prefix ELSE 0

\* std::remove_if + erase of the rules for the network, keeping the order
RECURSIVE EraseNetwork(_, _)
EraseNetwork(rules, network) ==
    IF rules = << >> THEN << >>
    ELSE IF Head(rules).network = network THEN EraseNetwork(Tail(rules), network)
         ELSE <<Head(rules)>> \o EraseNetwork(Tail(rules), network)

\* ACLManager::sort_rules: std::sort leaves the rules in an order in which no rule
\* compares less than a rule before it; which of these orders is unspecified.
sort_rules(rules) ==
    LET n == Len(rules)
        orders == {f \in [1 .. n -> 1 .. n] : \A i, j \in 1 .. n : i # j => f[i] # f[j]}
        less == [i \in 1 .. n |-> [j \in 1 .. n |-> compare_rules(rules[i], rules[j]) < 0]]
    IN  {[i \in 1 .. n |-> rules[f[i]]] : f \in
            {g \in orders : \A i, j \in 1 .. n : i < j => ~less[g[j]][g[i]]}}

\* add_rule without the erase of the rule already stored for the network
add_rule_keep(rules, rule) ==
    IF is_valid_cidr_throws(rule.network) THEN {rules}
    ELSE IF ~is_valid_cidr(rule.network) THEN {rules}
    ELSE sort_rules(Append(rules, rule))

\* ACLManager::add_rule: the tables it can leave
add_rule(rules, rule) ==
    IF is_valid_cidr_throws(rule.network) THEN {rules}
    ELSE IF ~is_valid_cidr(rule.network) THEN {rules}
    ELSE sort_rules(Append(EraseNetwork(rules, rule.network), rule))

\* How ACLManager::add_rule ends: its return value, or the exception that leaves it
add_rule_outcome(rule) ==
    IF is_valid_cidr_throws(rule.network) THEN "invalid_argument"
    ELSE IF ~is_valid_cidr(rule.network) THEN "false"
    ELSE "true"

\* ACLManager::has_rule
has_rule(rules, network) == \E i \in 1 .. Len(rules) : rules[i].network = network

\* The entries of a list that load_rules reaches: those before the first one
\* whose add_rule call throws
RECURSIVE BeforeThrow(_)
BeforeThrow(networks) ==
    IF networks = << >> THEN << >>
    ELSE IF is_valid_cidr_throws(Head(networks)) THEN << >>
    ELSE <<Head(networks)>> \o BeforeThrow(Tail(networks))

Throws(networks) == \E i \in 1 .. Len(networks) : is_valid_cidr_throws(networks[i])

\* ACLManager::load_rules: the add_rule calls over one of its two lists
RECURSIVE add_rules(_, _, _)
add_rules(tables, action, networks) ==
    IF networks = << >> THEN tables
    ELSE add_rules(UNION {add_rule(t, ACLRule(action, Head(networks), "")) : t \in tables},
                   action, Tail(networks))

\* ACLManager::load_rules: the tables it can leave; an exception thrown by an
\* add_rule call ends it there
load_rules(allowed_networks, denied_networks) ==
    add_rules(add_rules({<< >>}, "ALLOW", BeforeThrow(allowed_networks)),
              "DENY",
              IF Throws(allowed_networks) THEN << >> ELSE BeforeThrow(denied_networks))

\* How ACLManager::load_rules ends
load_rules_outcome(allowed_networks, denied_networks) ==
    IF Throws(allowed_networks) \/ Throws(denied_networks) THEN "invalid_argument"
    ELSE "true"

\* ACLManager::is_denied
is_denied(rules, ip_address) ==
    LET matching == {i \in 1 .. Len(rules) : matches_rule(ip_address, rules[i])} IN
    IF matching # {}
    THEN rules[CHOOSE i \in matching : \A j \in matching : i <= j].action = "DENY"
    ELSE default_action_ = "DENY"

\* ACLManager::is_allowed
is_allowed(rules, ip_address) == ~is_denied(rules, ip_address)

\* The answer of is_ip_in_network before it is called
NotCalled ==
    [called |-> FALSE, ok |-> FALSE, network |-> <<0, 0, 0, 0>>, mask |-> <<0, 0, 0, 0>>,
     member |-> FALSE]

\* ACLManager::add_rule (both overloads)
AddRule(action, network, description) ==
    /\ UNCHANGED notACL
    /\ Len(EraseNetwork(rules_, network)) < MaxRules
    /\ rules_' \in add_rule(rules_, ACLRule(action, network, description))
    /\ UNCHANGED <<default_action_, little_endian, shift32, cidr_ip, cidr_net, cidr_out>>

\* ACLManager::remove_rule
RemoveRule(network) ==
    /\ UNCHANGED notACL
    /\ rules_' = EraseNetwork(rules_, network)
    /\ UNCHANGED <<default_action_, little_endian, shift32, cidr_ip, cidr_net, cidr_out>>

\* ACLManager::clear_rules
ClearRules ==
    /\ UNCHANGED notACL
    /\ rules_' = << >>
    /\ UNCHANGED <<default_action_, little_endian, shift32, cidr_ip, cidr_net, cidr_out>>

\* ACLManager::load_rules and load_from_config
LoadRules(allowed_networks, denied_networks) ==
    /\ UNCHANGED notACL
    /\ Len(allowed_networks) + Len(denied_networks) <= MaxRules
    /\ rules_' \in load_rules(allowed_networks, denied_networks)
    /\ UNCHANGED <<default_action_, little_endian, shift32, cidr_ip, cidr_net, cidr_out>>

\* ACLManager::set_default_action
SetDefaultAction(action) ==
    /\ UNCHANGED notACL
    /\ default_action_' = action
    /\ UNCHANGED <<rules_, little_endian, shift32, cidr_ip, cidr_net, cidr_out>>

\* parse_cidr and is_ip_in_network applied to the chosen address and network string
IsIpInNetwork ==
    /\ UNCHANGED notACL
    /\ ~cidr_out.called
    /\ cidr_out' = [called |-> TRUE,
                    ok |-> parse_cidr(cidr_net).ok,
                    network |-> parse_cidr(cidr_net).network,
                    mask |-> parse_cidr(cidr_net).mask,
                    member |-> is_ip_in_network(cidr_ip, cidr_net)]
    /\ UNCHANGED <<default_action_, rules_, little_endian, shift32, cidr_ip, cidr_net>>

\* The manager after construction (acl.cpp:29-32), on a little- or big-endian host
ACLConfigured ==
    /\ default_action_ = "ALLOW"
    /\ rules_ = << >>
    /\ little_endian \in BOOLEAN
    /\ shift32 \in Shift32Outcomes
    /\ cidr_ip = <<0, 0, 0, 0>> /\ cidr_net = Host(<<0, 0, 0, 0>>)
    /\ cidr_out = NotCalled

\* An address and a network string for is_ip_in_network
CidrChosen ==
    /\ default_action_ = "ALLOW"
    /\ rules_ = << >>
    /\ little_endian \in BOOLEAN
    /\ shift32 \in Shift32Outcomes
    /\ cidr_ip \in Addresses /\ cidr_net \in CidrStrings
    /\ cidr_out = NotCalled

-----------------------------------------------------------------------------
(* Specifications: one per component, the other components left alone.     *)

\* ---- Worker threads and the mutexes of the three components ----

Threads == {1, 2}

\* RateLimiter: clients_mutex_, global_mutex_ (rate_limiter.hpp:89, 104);
\* DDoSProtection: stats_mutex_, blocks_mutex_ (ddos_protection.hpp:122, 134);
\* ACLManager: rules_mutex_ (acl.hpp:91)
RateLimiterMutexes == {"clients_mutex_", "global_mutex_"}
DDoSProtectionMutexes == {"stats_mutex_", "blocks_mutex_"}
ACLManagerMutexes == {"rules_mutex_"}
Mutexes == RateLimiterMutexes \cup DDoSProtectionMutexes \cup ACLManagerMutexes

\* A thread that is in no call
Returned == [op |-> "", steps |-> << >>, at |-> 1]

\* No concurrent check_limit calls have been made
NoRound == [active |-> FALSE, client |-> "", rate |-> 0, burst |-> 0, tokens |-> 0,
            global_tokens |-> 0, since |-> 0, called |-> {}, admitted |-> 0]

\* No thread is in a call and every mutex is unlocked
NoCalls ==
    /\ owner = [m \in Mutexes |-> 0]
    /\ thr = [t \in Threads |-> Returned]
    /\ round = NoRound

\* DDoSProtection::DDoSProtection, left alone
DDoSIdle ==
    /\ clock_ms = 0
    /\ ddos_enabled_ = FALSE
    /\ threshold_ = 0 /\ block_duration_seconds_ = 0
    /\ connection_limit_ = 0 /\ connection_window_seconds_ = 0
    /\ client_stats_ = << >> /\ blocked_clients_ = << >> /\ total_blocked_ = 0
    /\ ddos_result = DDoSResult
    /\ nc_kept = FALSE
    /\ nc_client_stats_ = << >> /\ nc_blocked_clients_ = << >> /\ nc_total_blocked_ = 0
    /\ nc_ddos_result = DDoSResult
    /\ anomaly_score = << >> /\ detected = NotDetected

\* ACLManager::ACLManager, left alone
ACLIdle ==
    /\ default_action_ = "ALLOW"
    /\ rules_ = << >>
    /\ little_endian = TRUE
    /\ shift32 = <<0, 0, 0, 0>>
    /\ cidr_ip = <<0, 0, 0, 0>> /\ cidr_net = Host(<<0, 0, 0, 0>>)
    /\ cidr_out = NotCalled

\* RateLimiter::RateLimiter, left alone
RLIdle ==
    /\ now = 0
    /\ enabled_ = FALSE
    /\ default_rate_ = 0 /\ default_burst_ = 0
    /\ window_seconds_ = 0 /\ global_rate_ = 0 /\ global_burst_ = 0 /\ global_tokens_ = 0
    /\ global_last_refill_ = 0
    /\ clients_ = << >>
    /\ rl_result = RateLimitResult
    /\ connection_result = NoConnectionCheck
    /\ burst_run = NoRun
    /\ since_reset = FALSE

RLInit == RLConfigured /\ DDoSIdle /\ ACLIdle /\ NoCalls

RLNext ==
    \/ \E c \in Clients, r \in Rates, b \in Bursts : CheckLimit(c, r, b)
    \/ CheckGlobalLimit
    \/ \E b \in GlobalBursts : SetGlobalBurst(b)
    \/ RLCleanupExpiredEntries
    \/ RLReset
    \/ \E d \in 1 .. TicksPerSec : RLTick(d)

SpecRL == RLInit /\ [][RLNext]_vars

\* The connection counters of an enabled or disabled limiter, next to check_limit
ConnNext ==
    \/ \E c \in Clients : RecordConnection(c)
    \/ \E c \in Clients : ReleaseConnection(c)
    \/ \E c \in Clients, m \in 0 .. (MaxConnections + 1) : CheckConnectionLimit(c, m)
    \/ \E e \in BOOLEAN : SetEnabled(e)
    \/ \E c \in Clients, b \in Bursts : CheckLimit(c, 1, b)

SpecConn == RLInit /\ [][ConnNext]_vars

\* The limiter switched off and on between the calls
SwitchNext ==
    \/ \E e \in BOOLEAN : SetEnabled(e)
    \/ \E c \in Clients, b \in Bursts : CheckLimit(c, 1, b)
    \/ \E c \in Clients : CheckLimitDefault(c)
    \/ CheckGlobalLimit
    \/ \E c \in Clients, m \in 0 .. MaxConnections : CheckConnectionLimit(c, m)
    \/ \E c \in Clients : RecordConnection(c)
    \/ \E d \in 1 .. TicksPerSec : RLTick(d)

SwitchInit == RLInit /\ global_rate_ = 1 /\ window_seconds_ = 1

SpecSwitch == SwitchInit /\ [][SwitchNext]_vars

\* Callers that exhaust their bucket and sleep
RefillInit == RLInit /\ global_rate_ = 1 /\ window_seconds_ = 1

RefillNext ==
    \/ \E c \in Clients, r \in RefillRates, b \in Bursts : CheckLimit(c, r, b)
    \/ RLTick(1)
    \/ \E s \in 1 .. MaxWait : RLSleep(s)

SpecRefill == RefillInit /\ [][RefillNext]_vars

DDoSInit == DDoSConfigured /\ ~nc_kept /\ RLIdle /\ ACLIdle /\ NoCalls

DDoSNext ==
    \/ \E ip \in IPs : CheckRequest(ip)
    \/ \E ip \in IPs : CheckConnection(ip)
    \/ \E ip \in IPs : RecordRequest(ip)
    \/ \E ip \in IPs, d \in Durations : BlockClient(ip, d)
    \/ DDoSCleanupExpiredEntries
    \/ \E d \in {1, MsPerSec - (clock_ms % MsPerSec)} : DDoSTick(d)

SpecDDoS == DDoSInit /\ [][DDoSNext]_vars

\* The guard and the second guard that is never cleaned up, reconfigured while running
\* The guard switched off and on between the calls
GuardSwitchNext ==
    \/ \E e \in BOOLEAN : DDoSSetEnabled(e)
    \/ \E ip \in IPs : CheckRequest(ip)
    \/ \E ip \in IPs : CheckConnection(ip)
    \/ \E ip \in IPs, d \in Durations : BlockClient(ip, d)
    \/ \E d \in {1, MsPerSec - (clock_ms % MsPerSec)} : DDoSTick(d)

SpecGuardSwitch == DDoSInit /\ [][GuardSwitchNext]_vars

\* The connection accounting of the guard
AccountingNext ==
    \/ \E ip \in IPs : DDoSRecordConnection(ip)
    \/ \E ip \in IPs : RecordDisconnection(ip)
    \/ \E ip \in IPs :
          /\ Len(StatsEntry(client_stats_, ip).connection_times) < MaxRecorded
          /\ CheckConnection(ip)
    \/ \E d \in {1, MsPerSec - (clock_ms % MsPerSec)} : DDoSTick(d)

SpecAccounting == DDoSInit /\ [][AccountingNext]_vars

LazyInit == DDoSConfigured /\ nc_kept /\ RLIdle /\ ACLIdle /\ NoCalls

LazyNext ==
    \/ DDoSNext
    \/ \E w \in ConnWindows : SetConnectionWindow(w)

SpecLazy == LazyInit /\ [][LazyNext]_vars

ACLInit == ACLConfigured /\ RLIdle /\ DDoSIdle /\ NoCalls

ACLNext ==
    \/ \E a \in Actions, n \in Networks : AddRule(a, n, "")
    \/ \E n \in Networks : RemoveRule(n)
    \/ ClearRules
    \/ \E allowed \in ConfigLists, denied \in ConfigLists : LoadRules(allowed, denied)
    \/ \E a \in Actions : SetDefaultAction(a)

SpecACL == ACLInit /\ [][ACLNext]_vars

TableInit == ACLConfigured /\ RLIdle /\ DDoSIdle /\ NoCalls

TableNext ==
    \/ \E a \in Actions, n \in TableStrings, d \in Descriptions : AddRule(a, n, d)
    \/ \E n \in TableStrings : RemoveRule(n)
    \/ ClearRules
    \/ \E allowed \in TableLists, denied \in TableLists : LoadRules(allowed, denied)

SpecTable == TableInit /\ [][TableNext]_vars

CidrInit == CidrChosen /\ RLIdle /\ DDoSIdle /\ NoCalls

CidrNext == IsIpInNetwork

SpecCidr == CidrInit /\ [][CidrNext]_vars

-----------------------------------------------------------------------------
(* Claims about the RateLimiter                                            *)

\* C1: after any sequence of calls, with the clock advancing between them, every
\* client bucket holds 0 <= tokens <= burst (the burst recorded for the client) and
\* the global bucket holds 0 <= global_tokens <= global_burst.
TokenBucketBounds ==
    /\ \A c \in DOMAIN clients_ : 0 <= clients_[c].tokens /\ clients_[c].tokens <= clients_[c].burst
    /\ 0 <= global_tokens_ /\ global_tokens_ <= global_burst_

\* A bucket of rate UINT64_MAX refilled after a whole second (the sum wraps) and a
\* global bucket refilled and drawn from.
TokenBucketBoundsWitness ==
    /\ \E c \in DOMAIN clients_ :
          /\ clients_[c].rate = UMax /\ clients_[c].burst >= 2
          /\ clients_[c].last_refill >= TicksPerSec
          /\ clients_[c].tokens = clients_[c].burst - 1
    /\ global_last_refill_ >= TicksPerSec
    /\ global_tokens_ > 0 /\ global_tokens_ < global_burst_

\* C2: on a client without a bucket, with burst B >= 1 and at least B global tokens,
\* of the check_limit(client, rate, B) calls made one after the other before a whole
\* second has passed, exactly the first B are admitted and call B+1 is rejected.
SaturatingAdmission ==
    burst_run.active =>
        \A i \in 1 .. Len(burst_run.res) : burst_run.res[i] = (i <= burst_run.burst)

\* A run of B+1 calls, B >= 2, during which the clock moved.
SaturatingAdmissionWitness ==
    /\ burst_run.active
    /\ burst_run.burst >= 2
    /\ Len(burst_run.res) = burst_run.burst + 1
    /\ now > burst_run.start

\* C3: an enabled check_limit is admitted iff, after refill, the global bucket holds a
\* token and then the client's bucket holds a token; an admitted call takes exactly
\* one token from each.
AdmittedIffBothBuckets ==
    [][\A c \in Clients, r \in Rates, b \in Bursts :
          (/\ enabled_
           \* (a check_limit step leaves either the global rejection or the call's
           \* parameters in the client's entry: tested first, it spares evaluating
           \* CheckLimit on the steps of other calls)
           /\ \/ rl_result'.message = "Global rate limit exceeded"
              \/ c \in DOMAIN clients_' /\ clients_'[c].rate = r /\ clients_'[c].burst = b
           /\ CheckLimit(c, r, b)) =>
              LET gtok == GlobalRefill.tokens
                  e == ClientEntry(c)
                  reconf == e.rate # r \/ e.burst # b
                  ctok == IF reconf THEN b ELSE refill_tokens(e, r, b).tokens
              IN  /\ rl_result'.allowed <=> (gtok >= 1 /\ ctok >= 1)
                  /\ rl_result'.allowed =>
                        /\ global_tokens_' = gtok - 1
                        /\ clients_'[c].tokens = ctok - 1
                  /\ (gtok >= 1 /\ ctok = 0) => rl_result'.message = "Rate limit exceeded"
                  /\ gtok = 0 => rl_result'.message = "Global rate limit exceeded"]_vars

\* A call rejected by the client's bucket after the global bucket admitted it, in a
\* run whose first call was admitted.
AdmittedIffBothBucketsWitness ==
    /\ rl_result.message = "Rate limit exceeded"
    /\ burst_run.active /\ burst_run.res[1]
    /\ global_tokens_ > 0

-----------------------------------------------------------------------------
(* Claims about DDoSProtection                                             *)

\* The requests of an entry that lie inside the window ending now
InsideWindow(entry) ==
    Cardinality({i \in 1 .. Len(entry.request_times) :
                    entry.request_times[i] >= clock_ms - connection_window_seconds_ * MsPerSec})

\* C4: on an enabled guard and an IP without a live block, check_request records the
\* request; it answers allowed=false, ATTACK_DETECTED with the configured block
\* duration and installs a block for the IP iff the requests of the IP inside the
\* window, this one included, are more than threshold or detect_anomaly holds;
\* otherwise it answers allowed=true and installs no block.
AttackIffOverThreshold ==
    [][\A ip \in IPs :
          (/\ ddos_enabled_
           /\ ~is_blocked(blocked_clients_, ip)
           /\ CheckRequest(ip)) =>
              LET old == StatsEntry(client_stats_, ip)
                  attack == \/ InsideWindow(old) + 1 > threshold_
                            \/ detect_anomaly(client_stats_', ip)
                  times == client_stats_'[ip].request_times
              IN  /\ client_stats_'[ip].total_requests = old.total_requests + 1
                  /\ times # << >> /\ times[Len(times)] = clock_ms
                  /\ attack =>
                        /\ ~ddos_result'.allowed
                        /\ ddos_result'.status = "ATTACK_DETECTED"
                        /\ ddos_result'.block_duration_seconds = block_duration_seconds_
                        /\ ip \in DOMAIN blocked_clients_'
                        /\ blocked_clients_'[ip].expires_at =
                               clock_ms + block_duration_seconds_ * MsPerSec
                        /\ total_blocked_' = total_blocked_ + 1
                  /\ ~attack =>
                        /\ ddos_result'.allowed
                        /\ ddos_result'.status # "ATTACK_DETECTED"
                        /\ blocked_clients_' = blocked_clients_
                        /\ total_blocked_' = total_blocked_]_vars

\* A request blocked for its rate although an earlier request of the IP has left the
\* window, the block just installed.
AttackIffOverThresholdWitness ==
    /\ ddos_result.reason = "Request rate exceeded threshold"
    /\ \E ip \in DOMAIN client_stats_ :
          /\ Len(client_stats_[ip].request_times) = 3
          /\ InsideWindow(client_stats_[ip]) = 2
          /\ ip \in DOMAIN blocked_clients_
          /\ blocked_clients_[ip].expires_at = clock_ms + block_duration_seconds_ * MsPerSec

BlockedIffNotExpired ==
    /\ \A ip \in IPs :
          is_blocked(blocked_clients_, ip) <=>
              (ip \in DOMAIN blocked_clients_ /\ clock_ms <= blocked_clients_[ip].expires_at)
    /\ get_blocked_ips(blocked_clients_) = {ip \in IPs : is_blocked(blocked_clients_, ip)}

\* An entry at the instant it expires, a second after it was made, still blocking.
BlockedIffNotExpiredWitness ==
    /\ clock_ms >= MsPerSec
    /\ \E ip \in DOMAIN blocked_clients_ :
          /\ blocked_clients_[ip].expires_at = clock_ms
          /\ is_blocked(blocked_clients_, ip)
          /\ ip \in get_blocked_ips(blocked_clients_)

\* C6 as stated: is_blocked(ip) iff a block entry for ip exists and now < expires_at.
BlockedIffBeforeExpiry ==
    /\ \A ip \in IPs :
          is_blocked(blocked_clients_, ip) <=>
              (ip \in DOMAIN blocked_clients_ /\ clock_ms < blocked_clients_[ip].expires_at)
    /\ get_blocked_ips(blocked_clients_) = {ip \in IPs : is_blocked(blocked_clients_, ip)}

\* C7: an entry is not blocking once more than its duration has passed, cleaned up or
\* not, and the guard answers is_blocked, get_blocked_ips, check_request and
\* check_connection as its copy does that got the same calls at the same times but
\* none of the cleanup_expired_entries calls.
CleanupTransparent ==
    /\ \A ip \in DOMAIN blocked_clients_ :
          clock_ms > blocked_clients_[ip].expires_at => ~is_blocked(blocked_clients_, ip)
    /\ \A ip \in IPs :
          is_blocked(blocked_clients_, ip) = is_blocked(nc_blocked_clients_, ip)
    /\ get_blocked_ips(blocked_clients_) = get_blocked_ips(nc_blocked_clients_)
    /\ ddos_result = nc_ddos_result

-----------------------------------------------------------------------------
(* Claims about ACLManager                                                 *)

\* The prefix length written in a network string (32 without a '/')
PrefixLength(cidr) == IF cidr.slash THEN cidr.prefix ELSE MaxPrefix

\* The network a.b.c.d/p contains ip: the top p bits of the two addresses are equal
Contains(cidr, ip) ==
    \A i \in 1 .. 4 :
        LET k == Min(8, Max(0, PrefixLength(cidr) - 8 * (i - 1))) IN
        ip[i] \div 2 ^ (8 - k) = cidr.addr[i] \div 2 ^ (8 - k)

\* C8: the rule table is ordered by non-decreasing prefix length, and is_denied and
\* is_allowed are decided by the first rule of the table whose network contains the
\* address (so of two rules containing it the one of shorter prefix decides), by
\* the default action when no network contains it.
ShortestPrefixFirst ==
    /\ \A i, j \in 1 .. Len(rules_) :
          i < j => PrefixLength(rules_[i].network) <= PrefixLength(rules_[j].network)
    /\ \A ip \in Addresses :
          LET containing == {i \in 1 .. Len(rules_) : Contains(rules_[i].network, ip)}
              denied == IF containing # {}
                        THEN rules_[CHOOSE i \in containing :
                                        \A j \in containing : i <= j].action = "DENY"
                        ELSE default_action_ = "DENY"
          IN  /\ is_denied(rules_, ip) = denied
              /\ is_allowed(rules_, ip) = ~denied

\* C9: after add_rule(ALLOW, N) on an empty table and then add_rule(DENY, a), or after
\* load_rules({N}, {a}), with N of prefix length below 32 and a inside N, is_denied(a)
\* holds, is_allowed(a) does not, and the other addresses of N are allowed.
DenyOverridesAllow ==
    [][\A N \in Networks, a \in Addresses :
          (/\ N.slash /\ N.prefix < MaxPrefix
           /\ Contains(N, a)
           /\ \/ /\ rules_ = <<ACLRule("ALLOW", N, "")>>
                 /\ AddRule("DENY", Host(a), "")
              \/ LoadRules(<<N>>, <<Host(a)>>)) =>
              /\ is_denied(rules_', a)
              /\ ~is_allowed(rules_', a)
              /\ \A b \in Addresses :
                    (b # a /\ Contains(N, b)) => is_allowed(rules_', b)]_vars

\* C10: for a network string a.b.c.d/p, 0 <= p <= 32, parse_cidr succeeds with the
\* network a.b.c.d and the mask of the top p bits as words of the host, and
\* is_ip_in_network(ip, a.b.c.d/p) holds iff the top p bits of ip and of a.b.c.d are
\* equal.
CidrContainment ==
    (cidr_out.called /\ cidr_net.slash /\ cidr_net.prefix <= MaxPrefix) =>
        /\ cidr_out.ok
        /\ cidr_out.network = cidr_net.addr
        /\ cidr_out.mask = TopBits(cidr_net.prefix)
        /\ cidr_out.member <=> Contains(cidr_net, cidr_ip)

\* C11: when no rule of the table contains the address, is_allowed holds exactly when
\* the default action is ALLOW and is_denied is its negation (so with an empty table
\* and default DENY every address is denied); and a table holding only an ALLOW rule
\* for exactly the address, a.b.c.d or a.b.c.d/32, allows it.
DefaultFallback ==
    /\ \A ip \in Addresses :
          (\A i \in 1 .. Len(rules_) : ~Contains(rules_[i].network, ip)) =>
              /\ is_allowed(rules_, ip) = (default_action_ = "ALLOW")
              /\ is_denied(rules_, ip) = ~is_allowed(rules_, ip)
    /\ \A a \in Addresses :
          (\/ rules_ = <<ACLRule("ALLOW", Host(a), "")>>
           \/ rules_ = <<ACLRule("ALLOW", Cidr(a, MaxPrefix), "")>>) =>
              is_allowed(rules_, a)

\* C12: a rule whose network is a bare address matches that address only: under the
\* default DENY and the single rule ALLOW a, is_allowed(x) holds iff x = a.
BareAddressExact ==
    \A a \in Addresses :
        (default_action_ = "DENY" /\ rules_ = <<ACLRule("ALLOW", Host(a), "")>>) =>
            \A x \in Addresses : is_allowed(rules_, x) <=> (x = a)

\* The single rule ALLOW 192.168.1.0 under the default DENY, on a little-endian host.
BareAddressExactWitness ==
    /\ default_action_ = "DENY"
    /\ rules_ = <<ACLRule("ALLOW", Host(<<192, 168, 1, 0>>), "")>>
    /\ little_endian

\* C13: for every string that is neither a.b.c.d nor a.b.c.d/p with p an integer in
\* 0..32 (an empty, non-numeric or trailing-garbage prefix part included), add_rule
\* returns false, raises no exception and leaves the rule table as it was, and
\* has_rule of that string stays false.
MalformedRejected ==
    [][\A a \in Actions, n \in Malformed, d \in Descriptions :
          AddRule(a, n, d) =>
              /\ add_rule_outcome(ACLRule(a, n, d)) = "false"
              /\ rules_' = rules_
              /\ ~has_rule(rules_', n)]_vars


\* C14: after any sequence of add_rule, remove_rule, clear_rules and load_rules the
\* table holds at most one rule per literal network string, and add_rule for a
\* network string already present replaces the old rule (its action and its
\* description) and leaves the number of rules unchanged.
OneRulePerNetwork ==
    /\ \A i, j \in 1 .. Len(rules_) : rules_[i].network = rules_[j].network => i = j
    /\ \A a \in Actions, n \in TableStrings, d \in Descriptions :
          has_rule(rules_, n) =>
              \A table \in add_rule(rules_, ACLRule(a, n, d)) :
                  /\ add_rule_outcome(ACLRule(a, n, d)) = "true"
                  /\ Len(table) = Len(rules_)
                  /\ \E i \in 1 .. Len(table) : table[i] = ACLRule(a, n, d)
                  /\ \A i \in 1 .. Len(table) :
                        table[i].network = n => table[i] = ACLRule(a, n, d)
                  /\ \A m \in TableStrings \ {n} : has_rule(table, m) = has_rule(rules_, m)

\* A full table in which the rule for 192.168.1.0/24 is a DENY rule with a
\* description
OneRulePerNetworkWitness ==
    /\ Len(rules_) = MaxRules
    /\ \E i \in 1 .. Len(rules_) :
          rules_[i] = ACLRule("DENY", Cidr(<<192, 168, 1, 0>>, 24), "office")

\* The strings of the form a.b.c.d or a.b.c.d/p, p an integer in 0..32
WellFormed(n) ==
    /\ \A k \in 1 .. 4 : n.addr[k] \in 0 .. 255
    /\ n.slash => (n.digits /\ n.rest = "" /\ n.prefix \in 0 .. MaxPrefix)

Range(list) == {list[i] : i \in 1 .. Len(list)}

\* C15: load_rules(allowed, denied) returns true and leaves exactly one rule for each
\* syntactically valid network string of the two lists and nothing of the previous
\* table: ALLOW for the strings only in allowed, DENY for the strings in denied;
\* malformed entries are skipped without affecting the others.
LoadRulesBestEffort ==
    [][\A allowed \in TableLists, denied \in TableLists :
          LoadRules(allowed, denied) =>
              /\ load_rules_outcome(allowed, denied) = "true"
              /\ \A i, j \in 1 .. Len(rules_') : rules_'[i].network = rules_'[j].network => i = j
              /\ {rules_'[i] : i \in 1 .. Len(rules_')} =
                     {ACLRule(IF n \in Range(denied) THEN "DENY" ELSE "ALLOW", n, "") :
                          n \in {m \in Range(allowed) \cup Range(denied) : WellFormed(m)}}]_vars

\* C16: an enabled check_limit(client, rate, burst) whose (rate, burst) differs from
\* the pair stored for the client sets the bucket to tokens = burst and
\* last_refill = now before the token is consumed, whatever it held; the call is
\* admitted whenever burst >= 1 and the global bucket has a token.
ResetOnNewParameters ==
    [][\A c \in Clients, r \in Rates, b \in Bursts :
          (/\ enabled_
           /\ ClientEntry(c).rate # r \/ ClientEntry(c).burst # b
           /\ global_tokens_ >= 1
           /\ \/ rl_result'.message = "Global rate limit exceeded"
              \/ c \in DOMAIN clients_' /\ clients_'[c].rate = r /\ clients_'[c].burst = b
           /\ CheckLimit(c, r, b)) =>
              /\ rl_result'.allowed <=> (b >= 1)
              /\ c \in DOMAIN clients_'
              /\ clients_'[c].rate = r /\ clients_'[c].burst = b
              /\ clients_'[c].last_refill = now
              /\ clients_'[c].tokens = IF b >= 1 THEN b - 1 ELSE 0]_vars

\* C17: refill counts whole elapsed seconds only: a check_limit made less than one
\* whole second after the bucket's last_refill adds no tokens; and once at least
\* ceil(burst/rate) whole seconds have elapsed on an exhausted bucket (rate >= 1, the
\* global bucket refilled likewise), the next check_limit with the same (rate, burst)
\* is admitted with the tokens refilled to min(burst, tokens + rate * elapsed) before
\* the consumption.
WholeSecondRefill ==
    [][\A c \in Clients, r \in RefillRates, b \in Bursts \ {0} :
          (/\ enabled_
           /\ c \in DOMAIN clients_ /\ clients_[c].rate = r /\ clients_[c].burst = b
           /\ GlobalRefill.tokens >= 1
           /\ CheckLimit(c, r, b)) =>
              LET elapsed == seconds_since(clients_[c].last_refill) IN
              /\ elapsed = 0 =>
                    /\ rl_result'.allowed <=> (clients_[c].tokens >= 1)
                    /\ clients_'[c].tokens = Max(clients_[c].tokens - 1, 0)
              /\ (clients_[c].tokens = 0 /\ elapsed * r >= b) =>
                    /\ rl_result'.allowed
                    /\ clients_'[c].tokens = Min(b, clients_[c].tokens + r * elapsed) - 1]_vars

\* C18: for an enabled limiter check_connection_limit(client, max) returns true iff
\* the client's active-connection counter is strictly below max; record_connection
\* adds one to the counter and release_connection takes one off a positive counter
\* (at zero it is a no-op, so the counter never goes below zero);
\* check_connection_limit changes neither the counter nor any token count.
ConnectionCounter ==
    [][\A c \in Clients :
          LET count == ClientEntry(c).active_connections
              count_after == IF c \in DOMAIN clients_' THEN clients_'[c].active_connections ELSE 0
              tokens_after == IF c \in DOMAIN clients_' THEN clients_'[c].tokens ELSE 0
          IN  /\ count_after >= 0
              /\ RecordConnection(c) => count_after = count + 1
              /\ ReleaseConnection(c) => count_after = IF count > 0 THEN count - 1 ELSE 0
              /\ \A m \in 0 .. (MaxConnections + 1) :
                    (enabled_ /\ CheckConnectionLimit(c, m)) =>
                        /\ connection_result'.allowed <=> (count < m)
                        /\ count_after = count
                        /\ tokens_after = ClientEntry(c).tokens
                        /\ global_tokens_' = global_tokens_]_vars

\* A client at its maximum of open connections was refused, with tokens in its bucket
ConnectionCounterWitness ==
    /\ enabled_
    /\ connection_result.called /\ ~connection_result.allowed
    /\ \E c \in DOMAIN clients_ :
          /\ clients_[c].active_connections = connection_result.max_connections
          /\ clients_[c].active_connections >= 1
          /\ clients_[c].tokens >= 1

\* C19: for an enabled guard with connection limit L and an IP that is not blocked,
\* check_connection(ip) admits and records the connection (live count + 1) while
\* the live count is below L; at a live count >= L it returns allowed = false with
\* status ATTACK_DETECTED, records nothing and blocks the IP for
\* block_duration_seconds.  Without disconnections the first L calls on a fresh IP
\* are admitted and call L+1 is refused.
ConnectionLimit ==
    [][\A ip \in IPs :
          (/\ ddos_enabled_
           /\ ~is_blocked(blocked_clients_, ip)
           /\ CheckConnection(ip)) =>
              LET count == get_connection_count(client_stats_, ip) IN
              IF count < connection_limit_
              THEN /\ ddos_result'.allowed /\ ddos_result'.status = "NORMAL"
                   /\ get_connection_count(client_stats_', ip) = count + 1
                   /\ blocked_clients_' = blocked_clients_
                   /\ total_blocked_' = total_blocked_
              ELSE /\ ~ddos_result'.allowed /\ ddos_result'.status = "ATTACK_DETECTED"
                   /\ ddos_result'.block_duration_seconds = block_duration_seconds_
                   /\ client_stats_' = client_stats_
                   /\ is_blocked(blocked_clients_', ip)
                   /\ blocked_clients_'[ip].expires_at =
                          clock_ms + block_duration_seconds_ * MsPerSec]_vars

\* Call L+1 on an IP with L open connections was refused and the IP blocked
ConnectionLimitWitness ==
    /\ ddos_enabled_
    /\ connection_limit_ >= 1
    /\ ~ddos_result.allowed /\ ddos_result.status = "ATTACK_DETECTED"
    /\ ddos_result.reason = "Connection limit exceeded"
    /\ \E ip \in DOMAIN client_stats_ :
          /\ client_stats_[ip].total_connections = connection_limit_
          /\ is_blocked(blocked_clients_, ip)

\* C20: in the guard, record_connection(ip) followed by record_disconnection(ip)
\* returns get_connection_count(ip) to its value before the pair; after any sequence
\* of record_connection, record_disconnection and check_connection calls the count is
\* never negative, and a record_disconnection at count zero or for an unknown IP
\* leaves the state unchanged.
ConnectionAccounting ==
    [][\A ip \in IPs :
          LET count == get_connection_count(client_stats_, ip) IN
          /\ get_connection_count(client_stats_', ip) >= 0
          /\ DDoSRecordConnection(ip) =>
                /\ get_connection_count(client_stats_', ip) = count + 1
                /\ get_connection_count(record_disconnection(client_stats_', ip), ip) = count
          /\ RecordDisconnection(ip) =>
                /\ get_connection_count(client_stats_', ip) = IF count > 0 THEN count - 1 ELSE 0
                /\ count = 0 =>
                      /\ client_stats_' = client_stats_
                      /\ blocked_clients_' = blocked_clients_
                      /\ total_blocked_' = total_blocked_]_vars

\* An IP whose connections were recorded and all closed again
ConnectionAccountingWitness ==
    \E ip \in DOMAIN client_stats_ :
        /\ client_stats_[ip].total_connections = 0
        /\ Len(client_stats_[ip].connection_times) >= 2

\* C21: while the limiter is disabled, check_limit (both overloads),
\* check_global_limit and check_connection_limit return allowed for every client and
\* every prior state, and leave the global token count, the global refill timestamp
\* and the whole client table unchanged.
DisabledAdmitsAll ==
    [][~enabled_ =>
          /\ \A c \in Clients :
                (CheckLimitDefault(c) \/ \E b \in Bursts : CheckLimit(c, 1, b)) =>
                    /\ rl_result'.allowed
                    /\ global_tokens_' = global_tokens_
                    /\ global_last_refill_' = global_last_refill_
                    /\ clients_' = clients_
          /\ CheckGlobalLimit =>
                /\ rl_result'.allowed
                /\ global_tokens_' = global_tokens_
                /\ global_last_refill_' = global_last_refill_
                /\ clients_' = clients_
          /\ \A c \in Clients, m \in 0 .. MaxConnections :
                CheckConnectionLimit(c, m) =>
                    /\ connection_result'.allowed
                    /\ global_tokens_' = global_tokens_
                    /\ global_last_refill_' = global_last_refill_
                    /\ clients_' = clients_]_vars

\* A disabled limiter, its global bucket and a client's bucket empty, has answered
\* check_connection_limit(client, 0) with true
DisabledAdmitsAllWitness ==
    /\ ~enabled_
    /\ global_tokens_ = 0
    /\ \E c \in DOMAIN clients_ : clients_[c].tokens = 0 /\ clients_[c].burst >= 1
    /\ connection_result.called /\ connection_result.allowed
    /\ connection_result.max_connections = 0
    /\ rl_result.allowed

\* C22: while the guard is disabled, check_request(ip) and check_connection(ip)
\* return allowed = true for every IP, an IP with a live block entry or over its
\* thresholds included, and record nothing: the per-IP request and connection
\* counts, the retained timestamps, the block table and the total-blocked counter
\* are unchanged.
DisabledGuardAdmitsAll ==
    [][~ddos_enabled_ =>
          \A ip \in IPs :
              (CheckRequest(ip) \/ CheckConnection(ip)) =>
                  /\ ddos_result'.allowed /\ ddos_result'.status = "NORMAL"
                  /\ client_stats_' = client_stats_
                  /\ blocked_clients_' = blocked_clients_
                  /\ total_blocked_' = total_blocked_]_vars

\* A disabled guard that leaves an IP through although it is blocked and at its
\* connection limit
DisabledGuardAdmitsAllWitness ==
    /\ ~ddos_enabled_
    /\ ddos_result.allowed
    /\ \E ip \in DOMAIN client_stats_ :
          /\ is_blocked(blocked_clients_, ip)
          /\ client_stats_[ip].total_connections >= connection_limit_
          /\ client_stats_[ip].total_requests >= 1

\* ---- The status of an admitted request near the threshold ----

MaxBurstRequests == 4
WarnThresholds == {4, 5}

\* DDoSProtection::check_request, for an IP with fewer than cap requests so far
CheckRequestUpTo(client_ip, cap) ==
    /\ UNCHANGED notDDoS
    /\ Requests(client_ip) < cap
    /\ LET r == check_request(client_stats_, blocked_clients_, total_blocked_, client_ip)
           n == check_request(nc_client_stats_, nc_blocked_clients_, nc_total_blocked_, client_ip)
       IN  /\ client_stats_' = r.stats /\ blocked_clients_' = r.blocks
           /\ total_blocked_' = r.total /\ ddos_result' = r.result
           /\ nc_client_stats_' = Kept(n.stats, nc_client_stats_)
           /\ nc_blocked_clients_' = Kept(n.blocks, nc_blocked_clients_)
           /\ nc_total_blocked_' = Kept(n.total, nc_total_blocked_)
           /\ nc_ddos_result' = Kept(n.result, nc_ddos_result)
    /\ UNCHANGED <<clock_ms, ddosConfig, nc_kept>>

\* A guard with set_threshold(4) or set_threshold(5), enabled
WarningInit ==
    /\ clock_ms = 0
    /\ ddos_enabled_ = TRUE
    /\ threshold_ \in WarnThresholds
    /\ block_duration_seconds_ = 1
    /\ connection_limit_ \in Limits
    /\ connection_window_seconds_ \in ConnWindows
    /\ client_stats_ = << >> /\ blocked_clients_ = << >> /\ total_blocked_ = 0
    /\ ddos_result = DDoSResult
    /\ nc_kept = FALSE
    /\ nc_client_stats_ = << >> /\ nc_blocked_clients_ = << >> /\ nc_total_blocked_ = 0
    /\ nc_ddos_result = DDoSResult
    /\ anomaly_score = << >> /\ detected = NotDetected
    /\ RLIdle /\ ACLIdle /\ NoCalls

WarningNext ==
    \/ \E ip \in IPs : CheckRequestUpTo(ip, MaxBurstRequests)
    \/ \E d \in {1, MsPerSec - (clock_ms % MsPerSec)} : DDoSTick(d)

SpecWarning == WarningInit /\ [][WarningNext]_vars

\* The windowed rate check_request computed: the stamps are kept until the next call
RateSeen(client_ip) == get_request_rate_for_ip(client_stats_', client_ip)

\* C23 as stated: an admitted check_request with windowed rate r and threshold T
\* answers NORMAL when r is below 80% of T and WARNING, still allowed, when r is
\* between 80% and 100% of T, both ends included.
WarningBandInclusive ==
    [][\A ip \in IPs :
          (CheckRequestUpTo(ip, MaxBurstRequests) /\ ddos_result'.allowed) =>
              /\ 5 * RateSeen(ip) < 4 * threshold_ => ddos_result'.status = "NORMAL"
              /\ (4 * threshold_ <= 5 * RateSeen(ip) /\ RateSeen(ip) <= threshold_) =>
                    ddos_result'.status = "WARNING"]_vars

\* C23 amended: an admitted check_request answers NORMAL when r is at most 80% of
\* T and WARNING, still allowed, when r is above 80% of T and at most T.
WarningBand ==
    [][\A ip \in IPs :
          (CheckRequestUpTo(ip, MaxBurstRequests) /\ ddos_result'.allowed) =>
              /\ RateSeen(ip) <= threshold_
              /\ 5 * RateSeen(ip) <= 4 * threshold_ => ddos_result'.status = "NORMAL"
              /\ 5 * RateSeen(ip) > 4 * threshold_ => ddos_result'.status = "WARNING"]_vars

\* A request admitted with a rate of exactly 80% of the threshold
WarningBandWitness ==
    /\ ddos_enabled_ /\ ddos_result.allowed
    /\ \E ip \in DOMAIN client_stats_ :
          /\ client_stats_[ip].request_times # << >>
          /\ client_stats_[ip].request_times[Len(client_stats_[ip].request_times)] = clock_ms
          /\ 5 * get_request_rate_for_ip(client_stats_, ip) = 4 * threshold_

\* ---- The mutexes each operation takes, in program order ----

Lock(m) == [lock |-> TRUE, mutex |-> m]
Unlock(m) == [lock |-> FALSE, mutex |-> m]

\* A scope holding one std::lock_guard on m
Guarded(m) == <<Lock(m), Unlock(m)>>

RECURSIVE Repeat(_, _)
Repeat(steps, n) == IF n = 0 THEN << >> ELSE steps \o Repeat(steps, n - 1)

\* check_limit taking clients_mutex_ while still holding global_mutex_
check_limit_locks_nested ==
    { << >>,
      Guarded("global_mutex_"),
      <<Lock("global_mutex_"), Lock("clients_mutex_"),
        Unlock("clients_mutex_"), Unlock("global_mutex_")>> }

\* RateLimiter::check_limit: nothing when disabled; check_global_limit locks and
\* unlocks global_mutex_; when that admits, the rest runs under clients_mutex_.
check_limit_locks ==
    { << >>,
      Guarded("global_mutex_"),
      Guarded("global_mutex_") \o Guarded("clients_mutex_") }

\* RateLimiter::reset: clients_mutex_, then global_mutex_ while clients_mutex_ is
\* held; the guards are destroyed in reverse order at the end of the function.
RateLimiter_reset_locks ==
    { <<Lock("clients_mutex_"), Lock("global_mutex_"),
        Unlock("global_mutex_"), Unlock("clients_mutex_")>> }

\* The operations of RateLimiter and the lock sequences of their paths
RateLimiterCalls ==
    [op : {"RateLimiter::check_limit"}, steps : check_limit_locks]
    \cup [op : {"RateLimiter::check_global_limit"}, steps : {<< >>, Guarded("global_mutex_")}]
    \cup [op : {"RateLimiter::set_global_burst"}, steps : {Guarded("global_mutex_")}]
    \cup [op : {"RateLimiter::check_connection_limit"},
          steps : {<< >>, Guarded("clients_mutex_")}]
    \cup [op : {"RateLimiter::record_connection", "RateLimiter::release_connection",
                "RateLimiter::cleanup_expired_entries"},
          steps : {Guarded("clients_mutex_")}]
    \cup [op : {"RateLimiter::reset"}, steps : RateLimiter_reset_locks]

\* DDoSProtection::check_request: is_blocked; record_request; get_request_rate_for_ip;
\* block_client on a rate above the threshold; else detect_anomaly and block_client
\* on an anomaly.  Every callee locks and unlocks its own mutex.
check_request_locks ==
    { << >>,
      Guarded("blocks_mutex_"),
      Guarded("blocks_mutex_") \o Repeat(Guarded("stats_mutex_"), 2)
          \o Guarded("blocks_mutex_"),
      Guarded("blocks_mutex_") \o Repeat(Guarded("stats_mutex_"), 3)
          \o Guarded("blocks_mutex_"),
      Guarded("blocks_mutex_") \o Repeat(Guarded("stats_mutex_"), 3) }

\* DDoSProtection::check_connection: is_blocked; get_connection_count; block_client
\* at the limit, else record_connection.
check_connection_locks ==
    { << >>,
      Guarded("blocks_mutex_"),
      Guarded("blocks_mutex_") \o Guarded("stats_mutex_") \o Guarded("blocks_mutex_"),
      Guarded("blocks_mutex_") \o Repeat(Guarded("stats_mutex_"), 2) }

\* cleanup_expired_entries sweeping the statistics inside the scope of blocks_mutex_
DDoSProtection_cleanup_locks_nested ==
    { <<Lock("blocks_mutex_"), Lock("stats_mutex_"),
        Unlock("stats_mutex_"), Unlock("blocks_mutex_")>> }

\* DDoSProtection::cleanup_expired_entries: two scopes, one after the other
DDoSProtection_cleanup_locks ==
    { Guarded("blocks_mutex_") \o Guarded("stats_mutex_") }

\* DDoSProtection::reset: stats_mutex_, then blocks_mutex_ while stats_mutex_ is held
DDoSProtection_reset_locks ==
    { <<Lock("stats_mutex_"), Lock("blocks_mutex_"),
        Unlock("blocks_mutex_"), Unlock("stats_mutex_")>> }

\* The operations of DDoSProtection and the lock sequences of their paths
DDoSProtectionCalls ==
    [op : {"DDoSProtection::check_request"}, steps : check_request_locks]
    \cup [op : {"DDoSProtection::check_connection"}, steps : check_connection_locks]
    \cup [op : {"DDoSProtection::record_request", "DDoSProtection::record_connection",
                "DDoSProtection::record_disconnection"},
          steps : {Guarded("stats_mutex_")}]
    \cup [op : {"DDoSProtection::is_blocked", "DDoSProtection::block_client",
                "DDoSProtection::unblock_client"},
          steps : {Guarded("blocks_mutex_")}]
    \cup [op : {"DDoSProtection::cleanup_expired_entries"},
          steps : DDoSProtection_cleanup_locks]
    \cup [op : {"DDoSProtection::reset"}, steps : DDoSProtection_reset_locks]

\* The operations of ACLManager: add_rule locks after validating the network;
\* load_rules calls clear_rules and then add_rule once per listed network.
ACLManagerCalls ==
    [op : {"ACLManager::add_rule"}, steps : {<< >>, Guarded("rules_mutex_")}]
    \cup [op : {"ACLManager::remove_rule", "ACLManager::clear_rules",
                "ACLManager::is_denied"},
          steps : {Guarded("rules_mutex_")}]
    \cup [op : {"ACLManager::load_rules"},
          steps : {Repeat(Guarded("rules_mutex_"), 1 + n) : n \in 0 .. MaxRules}]

Calls == RateLimiterCalls \cup DDoSProtectionCalls \cup ACLManagerCalls

\* The step the thread is at, when it has not run to the end of its call
AtStep(t) == thr[t].steps[thr[t].at]
Running(t) == thr[t].at <= Len(thr[t].steps)
Held(t) == {m \in Mutexes : owner[m] = t}

\* A worker thread enters an operation
Invoke(t, call) ==
    /\ UNCHANGED notThreads
    /\ thr[t] = Returned
    /\ thr' = [thr EXCEPT ![t] = [op |-> call.op, steps |-> call.steps, at |-> 1]]
    /\ UNCHANGED <<owner, round>>

\* std::lock_guard's constructor: std::mutex::lock returns once the mutex is free
Acquire(t) ==
    /\ UNCHANGED notThreads
    /\ Running(t) /\ AtStep(t).lock
    /\ owner[AtStep(t).mutex] = 0
    /\ owner' = [owner EXCEPT ![AtStep(t).mutex] = t]
    /\ thr' = [thr EXCEPT ![t].at = @ + 1]
    /\ UNCHANGED round

\* std::lock_guard's destructor
Release(t) ==
    /\ UNCHANGED notThreads
    /\ Running(t) /\ ~AtStep(t).lock
    /\ owner' = [owner EXCEPT ![AtStep(t).mutex] = 0]
    /\ thr' = [thr EXCEPT ![t].at = @ + 1]
    /\ UNCHANGED round

\* The operation returns to its caller
Return(t) ==
    /\ UNCHANGED notThreads
    /\ thr[t] # Returned /\ ~Running(t)
    /\ thr' = [thr EXCEPT ![t] = Returned]
    /\ UNCHANGED <<owner, round>>

ThreadStep(t) == Acquire(t) \/ Release(t) \/ Return(t)

LocksInit == RLIdle /\ DDoSIdle /\ ACLIdle /\ NoCalls

LocksNext ==
    \/ \E t \in Threads, call \in Calls : Invoke(t, call)
    \/ \E t \in Threads : Acquire(t)
    \/ \E t \in Threads : Release(t)
    \/ \E t \in Threads : Return(t)

SpecLocks == LocksInit /\ [][LocksNext]_vars

\* Fair scheduling: a thread whose next step is possible again and again takes it
SpecLocksFair == SpecLocks /\ \A t \in Threads : SF_vars(ThreadStep(t))

\* C24 as stated: no operation of the three components ever holds more than one
\* mutex of its component at the same time.
AtMostOneMutex == \A t \in Threads : Cardinality(Held(t)) <= 1

\* C24 amended: only the two reset operations hold two mutexes, those of their own
\* component, the table's mutex taken first; every other operation holds at most one.
OnlyResetNests ==
    \A t \in Threads :
        /\ thr[t].op \notin {"RateLimiter::reset", "DDoSProtection::reset"} =>
              Cardinality(Held(t)) <= 1
        /\ thr[t].op = "RateLimiter::reset" =>
              /\ Held(t) \subseteq RateLimiterMutexes
              /\ "global_mutex_" \in Held(t) => "clients_mutex_" \in Held(t)
        /\ thr[t].op = "DDoSProtection::reset" =>
              /\ Held(t) \subseteq DDoSProtectionMutexes
              /\ "blocks_mutex_" \in Held(t) => "stats_mutex_" \in Held(t)

\* Both reset operations are inside their inner scope at once
OnlyResetNestsWitness ==
    \E t, u \in Threads :
        /\ thr[t].op = "RateLimiter::reset" /\ Held(t) = RateLimiterMutexes
        /\ thr[u].op = "DDoSProtection::reset" /\ Held(u) = DDoSProtectionMutexes

\* The thread waits in std::mutex::lock for a mutex that is held
Waiting(t) == Running(t) /\ AtStep(t).lock /\ owner[AtStep(t).mutex] # 0

NoWaitCycle ==
    \A S \in SUBSET Threads :
        S # {} => \E t \in S : ~(Waiting(t) /\ owner[AtStep(t).mutex] \in S)

BucketFor(client_id, requests_per_second, burst) ==
    LET state0 == ClientEntry(client_id) IN
    IF state0.rate # requests_per_second \/ state0.burst # burst
    THEN [tokens |-> burst, last_refill |-> now]
    ELSE [tokens |-> state0.tokens, last_refill |-> state0.last_refill]

\* A thread enters RateLimiter::check_limit(client_id, requests_per_second, burst)
\* and reads enabled_ (lines 68-72)
CheckLimitEnter(t, client_id, requests_per_second, burst) ==
    /\ UNCHANGED <<ddosVars, aclVars, scoreVars>>
    /\ thr[t] = Returned /\ t \notin round.called
    /\ round.active =>
          /\ round.client = client_id
          /\ round.rate = requests_per_second /\ round.burst = burst
    /\ thr' = [thr EXCEPT ![t] =
                  [op |-> "RateLimiter::check_limit",
                   steps |-> IF enabled_
                             THEN Guarded("global_mutex_") \o Guarded("clients_mutex_")
                             ELSE << >>,
                   at |-> 1,
                   client |-> client_id, rate |-> requests_per_second, burst |-> burst,
                   result |-> [RateLimitResult EXCEPT !.allowed = TRUE]]]
    /\ round' = IF round.active
                THEN [round EXCEPT !.called = @ \cup {t}]
                ELSE LET b == BucketFor(client_id, requests_per_second, burst) IN
                     [active |-> TRUE, client |-> client_id,
                      rate |-> requests_per_second, burst |-> burst,
                      tokens |-> b.tokens, global_tokens |-> global_tokens_,
                      since |-> Min(b.last_refill, global_last_refill_),
                      called |-> {t}, admitted |-> 0]
    /\ UNCHANGED <<now, rlVars, owner>>

\* check_global_limit inside check_limit (lines 75-80, 116-146), run under
\* global_mutex_ and ending with the guard's release; a refusal returns at line 79
GlobalSection(t) ==
    /\ UNCHANGED <<ddosVars, aclVars, scoreVars>>
    /\ thr[t].op = "RateLimiter::check_limit"
    /\ Running(t) /\ AtStep(t) = Unlock("global_mutex_") /\ owner["global_mutex_"] = t
    /\ LET g == GlobalCheck IN
       /\ global_tokens_' = g.tokens
       /\ global_last_refill_' = g.last_refill
       /\ thr' = IF g.result.allowed
                 THEN [thr EXCEPT ![t].at = @ + 1]
                 ELSE [thr EXCEPT ![t].at = Len(thr[t].steps) + 1, ![t].result = g.result]
    /\ owner' = [owner EXCEPT !["global_mutex_"] = 0]
    /\ UNCHANGED <<now, enabled_, default_rate_, default_burst_, window_seconds_,
                   global_rate_, global_burst_, clients_, rl_result, connection_result,
                   burst_run, since_reset, round>>

\* The per-client part of check_limit (lines 83-113), run under clients_mutex_ and
\* ending with the guard's release
ClientSection(t) ==
    /\ UNCHANGED <<ddosVars, aclVars, scoreVars>>
    /\ thr[t].op = "RateLimiter::check_limit"
    /\ Running(t) /\ AtStep(t) = Unlock("clients_mutex_") /\ owner["clients_mutex_"] = t
    /\ LET c == ClientCheck(thr[t].client, thr[t].rate, thr[t].burst) IN
       /\ clients_' = Put(clients_, thr[t].client, c.state)
       /\ thr' = [thr EXCEPT ![t].at = @ + 1, ![t].result = c.result]
    /\ owner' = [owner EXCEPT !["clients_mutex_"] = 0]
    /\ UNCHANGED <<now, enabled_, default_rate_, default_burst_, window_seconds_,
                   global_rate_, global_burst_, global_tokens_, global_last_refill_,
                   rl_result, connection_result, burst_run, since_reset, round>>

\* check_limit returns its RateLimitResult to the calling thread
CheckLimitReturn(t) ==
    /\ UNCHANGED <<ddosVars, aclVars, scoreVars>>
    /\ thr[t].op = "RateLimiter::check_limit" /\ ~Running(t)
    /\ rl_result' = thr[t].result
    /\ round' = [round EXCEPT !.admitted = IF thr[t].result.allowed THEN @ + 1 ELSE @]
    /\ thr' = [thr EXCEPT ![t] = Returned]
    /\ UNCHANGED <<now, enabled_, default_rate_, default_burst_, window_seconds_,
                   global_rate_, global_burst_, global_tokens_, global_last_refill_,
                   clients_, connection_result, burst_run, since_reset, owner>>

SerialInit == RLInit /\ global_rate_ = 1 /\ window_seconds_ = 1

SerialNext ==
    \/ \E c \in Clients, b \in Bursts : round = NoRound /\ CheckLimit(c, 1, b)
    \/ \E t \in Threads, c \in Clients, b \in Bursts : CheckLimitEnter(t, c, 1, b)
    \/ \E t \in Threads : Acquire(t)
    \/ \E t \in Threads : GlobalSection(t)
    \/ \E t \in Threads : ClientSection(t)
    \/ \E t \in Threads : CheckLimitReturn(t)
    \/ \E d \in 1 .. TicksPerSec : RLTick(d)

SpecSerial == SerialInit /\ [][SerialNext]_vars

\* Every thread of the round has returned
RoundOver == round.active /\ \A t \in Threads : thr[t] = Returned

\* C26: when N threads call check_limit side by side for one client with the same
\* (rate, burst), the bucket held B tokens, no whole second elapsed since either
\* bucket was refilled and the global bucket held at least N tokens, then exactly
\* min(N, B) calls are admitted and the bucket ends with max(B - N, 0) tokens.
SerializedConsumption ==
    LET N == Cardinality(round.called) IN
    (RoundOver /\ seconds_since(round.since) = 0 /\ round.global_tokens >= N) =>
        /\ round.admitted = Min(N, round.tokens)
        /\ ClientEntry(round.client).tokens = Max(round.tokens - N, 0)

\* Two threads have raced for the one token of the bucket
SerializedConsumptionWitness ==
    /\ RoundOver /\ seconds_since(round.since) = 0
    /\ round.called = Threads /\ round.global_tokens >= 2
    /\ round.tokens = 1 /\ round.admitted = 1

\* ---- Two clients of one limiter ----

TwoClients == {"client1", "client2"}

IndependentInit == RLInit /\ global_rate_ = 1 /\ window_seconds_ = 1

IndependentNext ==
    \/ \E c \in TwoClients, b \in {1, MaxBurst} : CheckLimit(c, 1, b)
    \/ \E c \in TwoClients : RecordConnection(c)
    \/ \E d \in 1 .. TicksPerSec : RLTick(d)

SpecIndependent == IndependentInit /\ [][IndependentNext]_vars

\* C27: a check_limit call for one client changes no field of any other client's
\* entry (and creates or removes no other entry), and a client that has no bucket
\* yet is never rejected with "Rate limit exceeded" on a burst of at least 1,
\* whatever the other client's bucket holds.
IndependentBuckets ==
    [][\A c1 \in TwoClients, b \in {1, MaxBurst} :
          CheckLimit(c1, 1, b) =>
              /\ \A c2 \in TwoClients \ {c1} :
                    /\ (c2 \in DOMAIN clients_') = (c2 \in DOMAIN clients_)
                    /\ c2 \in DOMAIN clients_ => clients_'[c2] = clients_[c2]
              /\ (c1 \notin DOMAIN clients_ /\ b >= 1) =>
                    rl_result'.message # "Rate limit exceeded"]_vars

\* client1's bucket is exhausted and has refused a call; client2's first call is admitted
IndependentBucketsWitness ==
    /\ DOMAIN clients_ = TwoClients
    /\ clients_["client1"].burst >= 1 /\ clients_["client1"].tokens = 0
    /\ clients_["client1"].active_connections = 1
    /\ clients_["client2"].burst >= 1
    /\ clients_["client2"].tokens = clients_["client2"].burst - 1
    /\ clients_["client2"].last_refill = now
    /\ rl_result.allowed

\* ---- reset and the calls after it ----

ResetNext ==
    \/ \E c \in Clients, b \in Bursts : CheckLimit(c, 1, b)
    \/ \E c \in Clients : RecordConnection(c)
    \/ RLReset
    \/ \E d \in 1 .. TicksPerSec : RLTick(d)
    \/ \E s \in 1 .. MaxWait : RLSleep(s)

SpecReset == RLInit /\ [][ResetNext]_vars

\* C28: reset() leaves the client table empty and the global bucket at
\* global_tokens = global_burst with the refill timestamp at the current time; the
\* first check_limit after it with burst >= 1 is admitted, whatever the client's
\* bucket held before.
ResetReadmits ==
    [][/\ RLReset =>
            /\ clients_' = << >>
            /\ global_tokens_' = global_burst_' /\ global_last_refill_' = now'
       /\ \A c \in Clients, b \in Bursts :
            (since_reset /\ b >= 1 /\ CheckLimit(c, 1, b)) => rl_result'.allowed]_vars

\* ---- cleanup_expired_entries of the limiter ----

\* The windows set_window_seconds is called with: a second, and half the word range
CleanupWindows == {1, Mod \div 2}

\* RateLimiter::set_window_seconds
SetWindowSeconds(window) ==
    /\ UNCHANGED <<notRL, connection_result, default_rate_, default_burst_>>
    /\ since_reset' = FALSE
    /\ window_seconds_' = window
    /\ rl_result' = RateLimitResult
    /\ burst_run' = NoRun
    /\ UNCHANGED <<now, enabled_, global_rate_, global_burst_, global_tokens_,
                   global_last_refill_, clients_>>

CleanupNext ==
    \/ \E c \in TwoClients, b \in {1, MaxBurst} : CheckLimit(c, 1, b)
    \/ \E w \in CleanupWindows : SetWindowSeconds(w)
    \/ RLCleanupExpiredEntries
    \/ \E d \in 1 .. TicksPerSec : RLTick(d)

SpecCleanup == RLInit /\ [][CleanupNext]_vars

\* C29: cleanup_expired_entries removes exactly the entries whose last_refill is
\* more than 2 * window_seconds whole seconds in the past, leaves every other entry
\* and the global bucket unchanged, and keeps the bucket of a client checked within
\* the last 2 * window seconds.
CleanupRemovesStale ==
    [][RLCleanupExpiredEntries =>
          /\ DOMAIN clients_' =
                {c \in DOMAIN clients_ :
                    ~(seconds_since(clients_[c].last_refill) > 2 * window_seconds_)}
          /\ \A c \in DOMAIN clients_' : clients_'[c] = clients_[c]
          /\ global_tokens_' = global_tokens_
          /\ global_last_refill_' = global_last_refill_
          /\ \A c \in DOMAIN clients_ :
                (burst_run.active /\ burst_run.client = c /\ window_seconds_ >= 1) =>
                    c \in DOMAIN clients_']_vars

\* ---- detect_anomaly called directly ----

\* DDoSProtection::detect_anomaly: stores the score in the IP's entry, when there is
\* one, and returns the verdict
DetectAnomaly(client_ip) ==
    /\ UNCHANGED <<now, rlVars, aclVars, threadVars>>
    /\ anomaly_score' =
          IF client_ip \in DOMAIN client_stats_
          THEN Put(anomaly_score, client_ip, calculate_anomaly_score(client_stats_[client_ip]))
          ELSE anomaly_score
    /\ detected' = [called |-> TRUE, ip |-> client_ip,
                    result |-> detect_anomaly(client_stats_, client_ip)]
    /\ UNCHANGED ddosVars

AnomalyNext ==
    \/ \E ip \in IPs : RecordRequest(ip)
    \/ \E ip \in IPs : DetectAnomaly(ip)
    \/ \E d \in {1, MsPerSec - (clock_ms % MsPerSec)} : DDoSTick(d)

SpecAnomaly == DDoSInit /\ [][AnomalyNext]_vars

\* n * n times the sum of the squared deviations of the intervals from their mean
Deviations(entry) ==
    LET n == Len(entry.request_times) - 1
        S == SumSeq(Intervals(entry))
    IN  SumSquares([i \in 1 .. n |-> n * Intervals(entry)[i] - S])

\* The score the statement defines exceeds the bound b: 0 with fewer than 2 retained
\* timestamps or a mean interval of 0; else (r / mean) * (1 / (1 + stddev)) with
\* mean = S / n and stddev = sqrt(Deviations / n) / n, so that score > b iff
\* r*n*n - b*S*n > b*S*sqrt(Deviations / n).
ScoreAbove(entry, b) ==
    /\ Len(entry.request_times) >= 2
    /\ LET n == Len(entry.request_times) - 1
           S == SumSeq(Intervals(entry))
           r == InsideWindow(entry)
           lhs == r * n * n - b * S * n
       IN  /\ S > 0
           /\ lhs > 0
           /\ b = 0 \/ n * lhs * lhs > b * b * S * S * Deviations(entry)

\* C30: detect_anomaly(ip) stores the score of the statement (0 with fewer than 2
\* retained timestamps or a mean interval of 0, else (r / mean_interval) *
\* (1 / (1 + stddev))) and returns true iff that score is above anomaly_threshold
\* or the pattern is bot-like.
AnomalyScore ==
    [][\A ip \in IPs :
          (DetectAnomaly(ip) /\ ip \in DOMAIN client_stats_) =>
              /\ anomaly_score'[ip] =
                    {b \in 0 .. MaxScore : ScoreAbove(client_stats_[ip], b)}
              /\ detected'.result =
                    (\/ ScoreAbove(client_stats_[ip], AnomalyThreshold)
                     \/ is_anomalous_pattern(client_stats_[ip]))]_vars

\* detect_anomaly has returned true on a score above the threshold, with a retained
\* request outside the window
AnomalyScoreWitness ==
    /\ detected.called /\ detected.result
    /\ detected.ip \in DOMAIN anomaly_score
    /\ AnomalyThreshold \in anomaly_score[detected.ip]
    /\ InsideWindow(client_stats_[detected.ip]) < Len(client_stats_[detected.ip].request_times)

\* ---- The bot-like pattern on a stream of requests ----

MaxBotRequests == 10     \* requests recorded for the IP
Gaps == {1, 2}           \* milliseconds between two requests that are not simultaneous

\* DDoSProtection::record_request, for an IP with fewer than cap requests so far
RecordRequestUpTo(client_ip, cap) ==
    /\ UNCHANGED notDDoS
    /\ Requests(client_ip) < cap
    /\ client_stats_' = record_request(client_stats_, client_ip)
    /\ nc_client_stats_' = Kept(record_request(nc_client_stats_, client_ip), nc_client_stats_)
    /\ ddos_result' = DDoSResult /\ nc_ddos_result' = Kept(DDoSResult, nc_ddos_result)
    /\ UNCHANGED <<clock_ms, ddosConfig, blocked_clients_, total_blocked_,
                   nc_blocked_clients_, nc_total_blocked_, nc_kept>>

\* The clock advances by d milliseconds before the next request of the stream
GapTick(d) ==
    /\ UNCHANGED notDDoS
    /\ \E ip \in DOMAIN client_stats_ :
          /\ client_stats_[ip].request_times # << >>
          /\ client_stats_[ip].request_times[Len(client_stats_[ip].request_times)] = clock_ms
    /\ clock_ms' = clock_ms + d
    /\ UNCHANGED <<ddosConfig, ddosState, ncState>>

BotInit == DDoSInit /\ threshold_ = 3 /\ connection_window_seconds_ = 1

BotNext ==
    \/ \E ip \in IPs : RecordRequestUpTo(ip, MaxBotRequests)
    \/ \E ip \in IPs : Requests(ip) >= BotMinSamples /\ DetectAnomaly(ip)
    \/ \E d \in Gaps : GapTick(d)

SpecBot == BotInit /\ [][BotNext]_vars

\* The pattern of the statement: at least 10 retained timestamps, population
\* stddev of the intervals < 0.1 * mean and mean < 100 ms.  With n intervals of sum
\* S, mean = S / n and stddev = sqrt(Deviations / n) / n.
BotLike(entry) ==
    /\ Len(entry.request_times) >= 10
    /\ LET n == Len(entry.request_times) - 1
           S == SumSeq(Intervals(entry))
       IN  /\ 100 * Deviations(entry) < n * S * S
           /\ S < 100 * n

MaxBlocked == 2          \* blocks counted before the checks stop

\* DDoSProtection::clear_blocks
ClearBlocks ==
    /\ UNCHANGED notDDoS
    /\ blocked_clients_' = << >>
    /\ nc_blocked_clients_' = Kept(<< >>, nc_blocked_clients_)
    /\ ddos_result' = DDoSResult /\ nc_ddos_result' = Kept(DDoSResult, nc_ddos_result)
    /\ UNCHANGED <<clock_ms, ddosConfig, client_stats_, total_blocked_,
                   nc_client_stats_, nc_total_blocked_, nc_kept>>

\* DDoSProtection::reset
DDoSReset ==
    /\ UNCHANGED notDDoS
    /\ client_stats_' = << >> /\ blocked_clients_' = << >> /\ total_blocked_' = 0
    /\ nc_client_stats_' = Kept(<< >>, nc_client_stats_)
    /\ nc_blocked_clients_' = Kept(<< >>, nc_blocked_clients_)
    /\ nc_total_blocked_' = Kept(0, nc_total_blocked_)
    /\ ddos_result' = DDoSResult /\ nc_ddos_result' = Kept(DDoSResult, nc_ddos_result)
    /\ UNCHANGED <<clock_ms, ddosConfig, nc_kept>>

TotalInit == DDoSInit /\ threshold_ = 1 /\ connection_window_seconds_ = 1

TotalNext ==
    \/ \E ip \in IPs : total_blocked_ < MaxBlocked /\ CheckRequest(ip)
    \/ \E ip \in IPs : total_blocked_ < MaxBlocked /\ CheckConnection(ip)
    \/ \E ip \in IPs, d \in Durations : BlockClient(ip, d)
    \/ \E ip \in IPs : UnblockClient(ip)
    \/ ClearBlocks
    \/ DDoSCleanupExpiredEntries
    \/ DDoSReset
    \/ \E d \in {MsPerSec - (clock_ms % MsPerSec)} : DDoSTick(d)

SpecTotal == TotalInit /\ [][TotalNext]_vars

\* C32: get_total_blocked() grows by exactly one on each check_request and
\* check_connection answered ATTACK_DETECTED, is unchanged by the answers NORMAL,
\* WARNING and BLOCKED and by block_client, unblock_client, clear_blocks and
\* cleanup_expired_entries, and is 0 after reset(); so it counts the
\* ATTACK_DETECTED answers since the last reset.
TotalBlocked ==
    [][LET checked == \E ip \in IPs : CheckRequest(ip) \/ CheckConnection(ip)
           attack == ddos_result'.status = "ATTACK_DETECTED"
       IN  /\ (checked /\ attack) => total_blocked_' = total_blocked_ + 1
           /\ (checked /\ ~attack) =>
                 /\ ddos_result'.status \in {"NORMAL", "WARNING", "BLOCKED"}
                 /\ total_blocked_' = total_blocked_
           /\ (\/ \E ip \in IPs, d \in Durations : BlockClient(ip, d)
               \/ \E ip \in IPs : UnblockClient(ip)
               \/ ClearBlocks
               \/ DDoSCleanupExpiredEntries) => total_blocked_' = total_blocked_
           /\ DDoSReset => total_blocked_' = 0]_vars

\* The second block counted, for a connection over the limit, on an IP whose
\* earlier block was lifted by unblock_client or clear_blocks
TotalBlockedWitness ==
    /\ total_blocked_ = 2
    /\ ddos_result.status = "ATTACK_DETECTED"
    /\ ddos_result.reason = "Connection limit exceeded"
    /\ clock_ms = 0

\* ---- Pruning of the recorded time points ----

PruneIPs == {"192.168.1.100", "10.0.0.1"}
PruneWindows == {0, 1}
MaxPruned == 2           \* requests and connections recorded for one IP, together

\* The requests and connections recorded for the IP so far
Recorded(client_ip) ==
    StatsEntry(client_stats_, client_ip).total_requests
        + StatsEntry(client_stats_, client_ip).total_connections

PruneInit == DDoSInit /\ threshold_ = 3 /\ connection_window_seconds_ = 1

PruneNext ==
    \/ \E ip \in PruneIPs : Recorded(ip) < MaxPruned /\ RecordRequestUpTo(ip, MaxPruned)
    \/ \E ip \in PruneIPs : Recorded(ip) < MaxPruned /\ DDoSRecordConnection(ip)
    \/ DDoSCleanupExpiredEntries
    \/ \E w \in PruneWindows : SetConnectionWindow(w)
    \/ \E d \in {MsPerSec - (clock_ms % MsPerSec)} : DDoSTick(d)

SpecPrune == PruneInit /\ [][PruneNext]_vars

\* Every retained time point of the entry is at or after now - 2 * connection_window
Pruned(entry) ==
    LET cutoff == clock_ms - 2 * connection_window_seconds_ * MsPerSec
    IN  /\ \A i \in 1 .. Len(entry.request_times) : entry.request_times[i] >= cutoff
        /\ \A i \in 1 .. Len(entry.connection_times) : entry.connection_times[i] >= cutoff

\* C33: right after record_request(ip) or record_connection(ip) for that IP, and after
\* cleanup_expired_entries() for every IP, each retained request and connection time
\* point is at or after now - 2 * connection_window_seconds; pruning changes neither
\* total_requests, nor the live connection count, nor the requests counted inside
\* the window.
PruningKeepsCounts ==
    [][/\ \A ip \in PruneIPs :
             \* the IP of the call
             LET old == StatsEntry(client_stats_, ip)
                 new == StatsEntry(client_stats_', ip)
             IN  /\ RecordRequestUpTo(ip, MaxPruned) =>
                       /\ Pruned(new)
                       /\ new.total_requests = old.total_requests + 1
                       /\ new.total_connections = old.total_connections
                       /\ InsideWindow(new) = InsideWindow(old) + 1
                 /\ DDoSRecordConnection(ip) =>
                       /\ Pruned(new)
                       /\ new.total_requests = old.total_requests
                       /\ new.total_connections = old.total_connections + 1
                       /\ InsideWindow(new) = InsideWindow(old)
        /\ DDoSCleanupExpiredEntries =>
              /\ DOMAIN client_stats_' = DOMAIN client_stats_
              /\ \A k \in DOMAIN client_stats_ :
                    /\ Pruned(client_stats_'[k])
                    /\ client_stats_'[k].total_requests = client_stats_[k].total_requests
                    /\ client_stats_'[k].total_connections = client_stats_[k].total_connections
                    /\ InsideWindow(client_stats_'[k]) = InsideWindow(client_stats_[k])]_vars

\* Two IPs, each with a request and a connection counted whose time points
\* cleanup_expired_entries has erased
PruningKeepsCountsWitness ==
    /\ DOMAIN client_stats_ = PruneIPs
    /\ \A ip \in PruneIPs :
          /\ client_stats_[ip].total_requests > Len(client_stats_[ip].request_times)
          /\ client_stats_[ip].total_connections > Len(client_stats_[ip].connection_times)
          /\ Pruned(client_stats_[ip])

\* ---- check_connection called from several threads ----

\* A thread enters DDoSProtection::check_connection; a disabled guard admits at once
CheckConnectionEnter(t, client_ip) ==
    /\ UNCHANGED <<now, rlVars, aclVars, scoreVars>>
    /\ thr[t] = Returned
    /\ thr' = [thr EXCEPT ![t] =
                  [op |-> "DDoSProtection::check_connection",
                   steps |-> IF ddos_enabled_
                             THEN Guarded("blocks_mutex_") \o Repeat(Guarded("stats_mutex_"), 2)
                             ELSE << >>,
                   at |-> 1,
                   client_ip |-> client_ip, connections |-> 0, result |-> DDoSResult]]
    /\ UNCHANGED <<clock_ms, ddosConfig, ddosState, ncState, owner, round>>

\* The scopes of blocks_mutex_: is_blocked at the start of the call, block_client
\* (followed by total_blocked_++) after the count was found at the limit
ConnectionBlocksSection(t) ==
    /\ UNCHANGED <<now, rlVars, aclVars, scoreVars>>
    /\ thr[t].op = "DDoSProtection::check_connection"
    /\ Running(t) /\ AtStep(t) = Unlock("blocks_mutex_") /\ owner["blocks_mutex_"] = t
    /\ IF thr[t].at = 2
       THEN /\ thr' = IF is_blocked(blocked_clients_, thr[t].client_ip)
                      THEN [thr EXCEPT ![t].at = Len(thr[t].steps) + 1,
                                       ![t].result = Blocked(client_stats_, blocked_clients_,
                                                             total_blocked_).result]
                      ELSE [thr EXCEPT ![t].at = @ + 1]
            /\ UNCHANGED <<blocked_clients_, total_blocked_>>
       ELSE LET a == Attack(client_stats_, blocked_clients_, total_blocked_,
                            thr[t].client_ip, "Connection limit exceeded")
            IN  /\ blocked_clients_' = a.blocks
                /\ total_blocked_' = a.total
                /\ thr' = [thr EXCEPT ![t].at = @ + 1, ![t].result = a.result]
    /\ owner' = [owner EXCEPT !["blocks_mutex_"] = 0]
    /\ UNCHANGED <<clock_ms, ddosConfig, client_stats_, ddos_result, ncState, round>>

\* The scopes of stats_mutex_: get_connection_count, whose value decides between
\* block_client and record_connection, and then record_connection
ConnectionStatsSection(t) ==
    /\ UNCHANGED <<now, rlVars, aclVars, scoreVars>>
    /\ thr[t].op = "DDoSProtection::check_connection"
    /\ Running(t) /\ AtStep(t) = Unlock("stats_mutex_") /\ owner["stats_mutex_"] = t
    /\ IF thr[t].at = 4
       THEN LET connections == get_connection_count(client_stats_, thr[t].client_ip)
            IN  /\ thr' = [thr EXCEPT
                             ![t].connections = connections,
                             ![t].steps = IF connections >= connection_limit_
                                          THEN Guarded("blocks_mutex_")
                                                   \o Guarded("stats_mutex_")
                                                   \o Guarded("blocks_mutex_")
                                          ELSE @,
                             ![t].at = @ + 1]
                /\ UNCHANGED client_stats_
       ELSE /\ client_stats_' = record_connection(client_stats_, thr[t].client_ip)
            /\ thr' = [thr EXCEPT ![t].at = @ + 1]
    /\ owner' = [owner EXCEPT !["stats_mutex_"] = 0]
    /\ UNCHANGED <<clock_ms, ddosConfig, blocked_clients_, total_blocked_, ddos_result,
                   ncState, round>>

\* check_connection returns its DDoSResult to the calling thread
CheckConnectionReturn(t) ==
    /\ UNCHANGED <<now, rlVars, aclVars, scoreVars>>
    /\ thr[t].op = "DDoSProtection::check_connection" /\ ~Running(t)
    /\ ddos_result' = thr[t].result
    /\ thr' = [thr EXCEPT ![t] = Returned]
    /\ UNCHANGED <<clock_ms, ddosConfig, client_stats_, blocked_clients_, total_blocked_,
                   ncState, owner, round>>

ConnRaceInit == DDoSInit /\ threshold_ = 1 /\ connection_window_seconds_ = 1

ConnRaceNext ==
    \/ \E t \in Threads, ip \in IPs : CheckConnectionEnter(t, ip)
    \/ \E t \in Threads : Acquire(t)
    \/ \E t \in Threads : ConnectionBlocksSection(t)
    \/ \E t \in Threads : ConnectionStatsSection(t)
    \/ \E t \in Threads : CheckConnectionReturn(t)
    \/ \E d \in {MsPerSec - (clock_ms % MsPerSec)} : DDoSTick(d)

SpecConnRace == ConnRaceInit /\ [][ConnRaceNext]_vars

\* C34: when several threads call check_connection for the same IP, with no
\* disconnections, the live connection count of the IP never exceeds
\* connection_limit: at most connection_limit of the calls are admitted.
ConnectionCapConcurrent ==
    \A ip \in DOMAIN client_stats_ : client_stats_[ip].total_connections <= connection_limit_

\* ---- load_rules running beside a reader of the table ----

\* A thread enters ACLManager::load_rules: clear_rules, then one add_rule call for
\* each network string, each call with its own std::lock_guard on rules_mutex_
LoadRulesEnter(t, allowed_networks, denied_networks) ==
    /\ UNCHANGED <<now, rlVars, ddosVars, scoreVars>>
    /\ thr[t] = Returned
    /\ \A u \in Threads : thr[u].op # "ACLManager::load_rules"
    /\ \A i \in 1 .. Len(allowed_networks) : is_valid_cidr(allowed_networks[i])
    /\ \A i \in 1 .. Len(denied_networks) : is_valid_cidr(denied_networks[i])
    /\ Len(allowed_networks) + Len(denied_networks) <= MaxRules
    /\ thr' = [thr EXCEPT ![t] =
                  [op |-> "ACLManager::load_rules",
                   steps |-> Repeat(Guarded("rules_mutex_"),
                                    1 + Len(allowed_networks) + Len(denied_networks)),
                   at |-> 1,
                   allowed |-> allowed_networks, denied |-> denied_networks,
                   before |-> rules_]]
    /\ UNCHANGED <<aclVars, owner, round>>

\* One scope of rules_mutex_ inside load_rules: clear_rules first, then the add_rule
\* calls in the order of the lists
LoadRulesSection(t) ==
    /\ UNCHANGED <<now, rlVars, ddosVars, scoreVars>>
    /\ thr[t].op = "ACLManager::load_rules"
    /\ Running(t) /\ AtStep(t) = Unlock("rules_mutex_") /\ owner["rules_mutex_"] = t
    /\ LET k == (thr[t].at \div 2) - 1
           a == Len(thr[t].allowed)
       IN  IF k = 0 THEN rules_' = << >>
           ELSE rules_' \in add_rule(rules_,
                                     IF k <= a
                                     THEN ACLRule("ALLOW", thr[t].allowed[k], "")
                                     ELSE ACLRule("DENY", thr[t].denied[k - a], ""))
    /\ thr' = [thr EXCEPT ![t].at = @ + 1]
    /\ owner' = [owner EXCEPT !["rules_mutex_"] = 0]
    /\ UNCHANGED <<default_action_, little_endian, shift32, cidr_ip, cidr_net, cidr_out, round>>

\* A thread enters ACLManager::is_denied (is_allowed is its negation)
IsDeniedEnter(t, ip_address) ==
    /\ UNCHANGED <<now, rlVars, ddosVars, scoreVars>>
    /\ thr[t] = Returned
    /\ thr' = [thr EXCEPT ![t] =
                  [op |-> "ACLManager::is_denied", steps |-> Guarded("rules_mutex_"),
                   at |-> 1, ip |-> ip_address, denied |-> FALSE]]
    /\ UNCHANGED <<aclVars, owner, round>>

\* The scope of rules_mutex_ inside is_denied: the first matching rule decides
IsDeniedSection(t) ==
    /\ UNCHANGED <<now, rlVars, ddosVars, scoreVars>>
    /\ thr[t].op = "ACLManager::is_denied"
    /\ Running(t) /\ AtStep(t) = Unlock("rules_mutex_") /\ owner["rules_mutex_"] = t
    /\ thr' = [thr EXCEPT ![t].at = @ + 1, ![t].denied = is_denied(rules_, thr[t].ip)]
    /\ owner' = [owner EXCEPT !["rules_mutex_"] = 0]
    /\ UNCHANGED <<aclVars, round>>

LoadRaceInit == ACLInit

LoadRaceNext ==
    \/ \E t \in Threads, allowed \in ConfigLists, denied \in ConfigLists :
          LoadRulesEnter(t, allowed, denied)
    \/ \E t \in Threads : IsDeniedEnter(t, <<192, 168, 1, 100>>)
    \/ \E t \in Threads : Acquire(t)
    \/ \E t \in Threads : LoadRulesSection(t)
    \/ \E t \in Threads : IsDeniedSection(t)
    \/ \E t \in Threads : Return(t)

SpecLoadRace == LoadRaceInit /\ [][LoadRaceNext]_vars

\* C35: an is_allowed / is_denied call running beside load_rules(allowed, denied)
\* returns the decision under the table before the load or the decision under the
\* table after it, never one made from an empty or partly loaded table.
LoadRulesAtomic ==
    [][\A t \in Threads, u \in Threads :
          (IsDeniedSection(t) /\ thr[u].op = "ACLManager::load_rules") =>
              \/ thr'[t].denied = is_denied(thr[u].before, thr[t].ip)
              \/ \E after \in load_rules(thr[u].allowed, thr[u].denied) :
                    thr'[t].denied = is_denied(after, thr[t].ip)]_vars

\* ---- The calls admitted for one client in an interval ----

IntervalRates == {1, 2}

\* The calls of the client since the start of the interval under observation; any
\* call may start a new interval.
Counted(client_id, rate, burst, allowed, restart) ==
    IF burst_run.active /\ ~restart
    THEN [burst_run EXCEPT !.res = Append(burst_run.res, allowed)]
    ELSE [active |-> TRUE, client |-> client_id, rate |-> rate, burst |-> burst,
          start |-> now, res |-> <<allowed>>]

\* RateLimiter::check_limit for a client that is always checked with the same rate
\* and burst, its answer added to the interval under observation
CheckLimitCounted(client_id, requests_per_second, burst, restart) ==
    /\ UNCHANGED <<notRL, connection_result, default_rate_, default_burst_>>
    /\ since_reset' = FALSE
    /\ enabled_
    /\ client_id \in DOMAIN clients_ =>
          /\ clients_[client_id].rate = requests_per_second
          /\ clients_[client_id].burst = burst
    /\ Len(burst_run.res) < MaxBurstRequests
    /\ LET g == GlobalCheck IN
       /\ global_tokens_' = g.tokens
       /\ global_last_refill_' = g.last_refill
       /\ IF ~g.result.allowed
          THEN /\ clients_' = clients_
               /\ rl_result' = g.result
               /\ burst_run' = Counted(client_id, requests_per_second, burst, FALSE, restart)
          ELSE LET c == ClientCheck(client_id, requests_per_second, burst) IN
               /\ clients_' = Put(clients_, client_id, c.state)
               /\ rl_result' = c.result
               /\ burst_run' = Counted(client_id, requests_per_second, burst,
                                       c.result.allowed, restart)
    /\ UNCHANGED <<now, enabled_, window_seconds_, global_rate_, global_burst_>>

\* The system clock advances while the interval runs on
IntervalTick(d) ==
    /\ UNCHANGED <<notRL, connection_result, default_rate_, default_burst_, since_reset>>
    /\ now + d <= MaxTime
    /\ now' = now + d
    /\ UNCHANGED <<enabled_, window_seconds_, global_rate_, global_burst_, global_tokens_,
                   global_last_refill_, clients_, rl_result, burst_run>>

RateInit == RLInit /\ global_rate_ = 1 /\ window_seconds_ = 1

RateNext ==
    \/ \E c \in Clients, r \in IntervalRates, b \in {1, MaxBurst}, restart \in BOOLEAN :
          CheckLimitCounted(c, r, b, restart)
    \/ \E d \in 1 .. TicksPerSec : IntervalTick(d)

SpecRate == RateInit /\ [][RateNext]_vars

\* C36: for a client always checked with the same (rate, burst), with no reset and
\* no cleanup_expired_entries call, the check_limit calls admitted in an interval
\* during which T whole seconds elapse are at most burst + rate * T.
RateBound ==
    burst_run.active =>
        Cardinality({i \in 1 .. Len(burst_run.res) : burst_run.res[i]})
            <= burst_run.burst
                   + burst_run.rate * ((now - burst_run.start) \div TicksPerSec)

\* ---- cleanup_expired_entries between the calls of a client ----

\* RateLimiter::get_active_connections
get_active_connections(clients, client_id) ==
    IF client_id \in DOMAIN clients THEN clients[client_id].active_connections ELSE 0

TransparentInit == RLInit /\ global_rate_ = 1

TransparentNext ==
    \/ \E c \in Clients : RecordConnection(c)
    \/ \E c \in Clients : ReleaseConnection(c)
    \/ \E c \in Clients, b \in {1, MaxBurst} : CheckLimit(c, 1, b)
    \/ RLCleanupExpiredEntries
    \/ \E d \in 1 .. TicksPerSec : RLTick(d)

SpecTransparent == TransparentInit /\ [][TransparentNext]_vars

\* C37: cleanup_expired_entries is not observable: the later answers of
\* check_limit, check_connection_limit and get_active_connections are those of the
\* run without it; in particular get_active_connections of every client, and with it
\* check_connection_limit, and the answer of the client's next check_limit are the
\* same before and after a cleanup.
CleanupUnobservable ==
    [][RLCleanupExpiredEntries =>
          \A c \in Clients :
              /\ get_active_connections(clients_', c) = get_active_connections(clients_, c)
              /\ \A b \in {1, MaxBurst} :
                    ClientCheck(c, 1, b)'.result = ClientCheck(c, 1, b).result]_vars

\* C38: a check_limit call answered allowed=false leaves both token counts as they
\* were after refill: a request rejected by the client's own bucket takes no token
\* from the global bucket, so a client that keeps being rejected cannot drain the
\* global bucket for the other clients.
RejectionConsumesNothing ==
    [][\A c \in TwoClients, b \in {1, MaxBurst} :
          (enabled_ /\ CheckLimit(c, 1, b) /\ ~rl_result'.allowed) =>
              /\ global_tokens_' = GlobalRefill.tokens
              /\ clients_'[c].tokens =
                     refill_tokens(IF ClientEntry(c).rate # 1 \/ ClientEntry(c).burst # b
                                   THEN [ClientEntry(c) EXCEPT !.rate = 1, !.burst = b,
                                                               !.tokens = b, !.last_refill = now]
                                   ELSE ClientEntry(c), 1, b).tokens]_vars

\* ---- The table after the same rules added in another order ----

\* The tables a sequence of add_rule calls can leave, started from the tables given
RECURSIVE add_in_order(_, _)
add_in_order(tables, rules) ==
    IF rules = << >> THEN tables
    ELSE add_in_order(UNION {add_rule(t, Head(rules)) : t \in tables}, Tail(rules))

\* The sequences in which the rules of a set can be added
Orders(S) ==
    {q \in [1 .. Cardinality(S) -> S] : \A i, j \in 1 .. Cardinality(S) : i # j => q[i] # q[j]}

\* Network strings of equal prefix length that contain 192.168.1.100: the address
\* with and without "/32", and two strings of its /24 network
OrderNetworks ==
    {Host(<<192, 168, 1, 100>>), Cidr(<<192, 168, 1, 100>>, MaxPrefix),
     Cidr(<<192, 168, 1, 0>>, 24), Cidr(<<192, 168, 1, 100>>, 24)}

OrderNext ==
    \/ \E a \in Actions, n \in OrderNetworks : AddRule(a, n, "")
    \/ \E a \in Actions : SetDefaultAction(a)

SpecOrder == ACLInit /\ [][OrderNext]_vars

\* C39: the decision depends only on the set of (network string, action) rules and
\* the default action: whatever the order of the successful add_rule calls that
\* produced the set, is_allowed(ip) is the same for every ip, also when two rules of
\* equal prefix length, different network strings and different actions contain ip.
DecisionOfRuleSet ==
    \A q \in Orders({rules_[i] : i \in 1 .. Len(rules_)}) :
        \A table \in add_in_order({<< >>}, q) :
            \A ip \in Addresses : is_allowed(table, ip) = is_allowed(rules_, ip)

\* ---- The first request after a block has expired ----

ExpiryNext ==
    \/ \E ip \in IPs : CheckRequest(ip)
    \/ \E d \in {1, MsPerSec - (clock_ms % MsPerSec)} : DDoSTick(d)

SpecExpiry == DDoSInit /\ [][ExpiryNext]_vars

\* C40: a block lasts no longer than its duration: when check_request has blocked
\* the IP for its rate and the IP sends nothing while the block is live, its first
\* check_request after the block has expired is admitted, whatever
\* block_duration_seconds and connection_window_seconds are.
AdmittedAfterExpiry ==
    [][\A ip \in IPs :
          (/\ ddos_result.reason = "Request rate exceeded threshold"
           /\ ip \in DOMAIN blocked_clients_
           /\ is_expired(blocked_clients_[ip].expires_at)
           /\ CheckRequest(ip)) => ddos_result'.allowed]_vars

=============================================================================
